---- MODULE Spec2Model ----
(***************************************************************************)
(* The control-surface registry of dolphin-reaper: GetWebRemoteConfig,     *)
(* SetWebRemotePort and SetWebRemoteEnabled acting on reaper.ini.          *)
(*                                                                         *)
(* Text is modelled character by character: a string is a sequence of      *)
(* one-character strings, the file is one such sequence with its line      *)
(* terminators in it, and every library call the code makes on text        *)
(* (bufio.ScanLines, strings.TrimSpace, HasPrefix, SplitN, Fields, Join,   *)
(* strconv.Atoi, fmt.Sprintf %d) is an operator that does what the call    *)
(* does.                                                                   *)
(***************************************************************************)
EXTENDS Integers, Sequences, FiniteSets, TLC

VARIABLES file, orig, created, nOps, last, settings, endpoint, client,
          polls, inflight

vars ==
    <<file, orig, created, nOps, last, settings, endpoint, client, polls,
      inflight>>

(***************************************************************************)
(* Bounds of the exploration.                                              *)
(***************************************************************************)
\* longest initial reaper.ini, in lines
MaxLines == 2
\* most mutating calls (SetWebRemotePort, SetWebRemoteEnabled) in one run
MaxOps == 2

(***************************************************************************)
(* Text primitives.                                                        *)
(***************************************************************************)
LF == "\n"
CR == "\r"
SP == " "

\* unicode.IsSpace restricted to the characters the model writes
IsSpace(c) == c \in {" ", "\t", "\n", "\r"}

Digits == <<"0", "1", "2", "3", "4", "5", "6", "7", "8", "9">>

IsDigit(c) == \E d \in 1..10 : Digits[d] = c

DigitVal(c) == (CHOOSE d \in 1..10 : Digits[d] = c) - 1

\* strings.HasPrefix
HasPrefix(s, prefix) ==
    /\ Len(s) >= Len(prefix)
    /\ SubSeq(s, 1, Len(prefix)) = prefix

\* strings.TrimPrefix
TrimPrefix(s, prefix) ==
    IF HasPrefix(s, prefix) THEN SubSeq(s, Len(prefix) + 1, Len(s)) ELSE s

RECURSIVE TrimLeftSpace(_)
TrimLeftSpace(s) ==
    IF s # <<>> /\ IsSpace(Head(s)) THEN TrimLeftSpace(Tail(s)) ELSE s

RECURSIVE TrimRightSpace(_)
TrimRightSpace(s) ==
    IF s # <<>> /\ IsSpace(s[Len(s)])
    THEN TrimRightSpace(SubSeq(s, 1, Len(s) - 1))
    ELSE s

\* strings.TrimSpace
TrimSpace(s) == TrimRightSpace(TrimLeftSpace(s))

\* strings.Index for a one-character separator: 0 when absent
RECURSIVE IndexFrom(_, _, _)
IndexFrom(s, c, i) ==
    IF i > Len(s) THEN 0
    ELSE IF s[i] = c THEN i
    ELSE IndexFrom(s, c, i + 1)

\* strings.SplitN(s, "=", 2)
SplitN2(s) ==
    LET i == IndexFrom(s, "=", 1)
    IN  IF i = 0 THEN <<s>>
        ELSE <<SubSeq(s, 1, i - 1), SubSeq(s, i + 1, Len(s))>>

\* the first index >= i of s that holds a space, Len(s) + 1 when none
RECURSIVE SpaceFrom(_, _)
SpaceFrom(s, i) ==
    IF i > Len(s) \/ IsSpace(s[i]) THEN i ELSE SpaceFrom(s, i + 1)

\* strings.Fields: the maximal runs of non-space characters
RECURSIVE FieldsFrom(_, _, _)
FieldsFrom(s, i, acc) ==
    IF i > Len(s) THEN acc
    ELSE IF IsSpace(s[i]) THEN FieldsFrom(s, i + 1, acc)
    ELSE LET j == SpaceFrom(s, i)
         IN  FieldsFrom(s, j, Append(acc, SubSeq(s, i, j - 1)))

Fields(s) == FieldsFrom(s, 1, <<>>)

\* strings.Join
RECURSIVE Join(_, _)
Join(elems, sep) ==
    IF elems = <<>> THEN <<>>
    ELSE IF Len(elems) = 1 THEN elems[1]
    ELSE elems[1] \o sep \o Join(Tail(elems), sep)

RECURSIVE DigitsVal(_, _)
DigitsVal(s, acc) ==
    IF s = <<>> THEN acc ELSE DigitsVal(Tail(s), 10 * acc + DigitVal(Head(s)))

\* strconv.Atoi: an optional sign and then decimal digits only
Atoi(s) ==
    LET signed == s # <<>> /\ Head(s) \in {"+", "-"}
        body   == IF signed THEN Tail(s) ELSE s
        ok     == body # <<>> /\ \A i \in 1..Len(body) : IsDigit(body[i])
    IN  IF ~ok THEN [err |-> TRUE, val |-> 0]
        ELSE [err |-> FALSE,
              val |-> IF signed /\ Head(s) = "-"
                      THEN 0 - DigitsVal(body, 0)
                      ELSE DigitsVal(body, 0)]

RECURSIVE ItoaNat(_)
ItoaNat(n) ==
    IF n < 10 THEN <<Digits[n + 1]>>
    ELSE Append(ItoaNat(n \div 10), Digits[(n % 10) + 1])

\* the %d verb of fmt.Sprintf
Itoa(n) == IF n < 0 THEN <<"-">> \o ItoaNat(0 - n) ELSE ItoaNat(n)

\* dropCR of bufio
DropCR(s) ==
    IF s # <<>> /\ s[Len(s)] = CR THEN SubSeq(s, 1, Len(s) - 1) ELSE s

\* bufio.Scanner with bufio.ScanLines, over the whole content: each
\* newline-terminated run is a line, a last unterminated run is a line when
\* it is not empty, and one trailing carriage return is dropped from a line
RECURSIVE ScanLinesFrom(_, _, _)
ScanLinesFrom(data, i, acc) ==
    LET j == IndexFrom(data, LF, i)
    IN  IF i > Len(data) THEN acc
        ELSE IF j = 0 THEN Append(acc, DropCR(SubSeq(data, i, Len(data))))
        ELSE ScanLinesFrom(data, j + 1,
                           Append(acc, DropCR(SubSeq(data, i, j - 1))))

ScanLines(data) == ScanLinesFrom(data, 1, <<>>)

(***************************************************************************)
(* The literals of the source.                                             *)
(***************************************************************************)
\* "csurf_"
CsurfPrefix == <<"c", "s", "u", "r", "f", "_">>

\* "csurf_cnt="
CsurfCntPrefix == <<"c", "s", "u", "r", "f", "_", "c", "n", "t", "=">>

\* "HTTP "
HTTPPrefix == <<"H", "T", "T", "P", " ">>

\* "WEBR "
WEBRPrefix == <<"W", "E", "B", "R", " ">>

\* "true"
TrueWord == <<"t", "r", "u", "e">>

\* " '' 'index.html' 0 ''", the tail of the entry format
EntryTail == <<" ", "'", "'", " ", "'", "i", "n", "d", "e", "x", ".", "h", "t", "m", "l", "'", " ", "0", " ", "'", "'">>

(***************************************************************************)
(* GetWebRemoteConfig.                                                     *)
(***************************************************************************)
NoConfig == [Port |-> 0, Enabled |-> FALSE, CSurfID |-> 0, RawConfig |-> <<>>]

\* the enabled test of both schemas
EnabledFlag(enabledVal) == enabledVal = <<"1">> \/ enabledVal = TrueWord

\* ParseWebRemoteLine with a slip: the port is the third token under both
\* schemas
ParseWebRemoteLineThirdToken(line) ==
    LET trimmed    == TrimSpace(line)
        parts      == SplitN2(trimmed)
        csurfValue == parts[2]
        csurfID    == Atoi(TrimPrefix(parts[1], CsurfPrefix))
        fields     == Fields(csurfValue)
        port       == Atoi(fields[3])
        skip       == [found |-> FALSE, cfg |-> NoConfig]
    IN  IF ~HasPrefix(trimmed, CsurfPrefix) THEN skip
        ELSE IF Len(parts) # 2 THEN skip
        ELSE IF ~(HasPrefix(csurfValue, HTTPPrefix)
                    \/ HasPrefix(csurfValue, WEBRPrefix)) THEN skip
        ELSE IF csurfID.err THEN skip
        ELSE IF Len(fields) < 3 THEN skip
        ELSE IF port.err THEN skip
        ELSE [found |-> TRUE,
              cfg   |-> [Port      |-> port.val,
                         Enabled   |-> EnabledFlag(fields[2]),
                         CSurfID   |-> csurfID.val,
                         RawConfig |-> csurfValue]]

\* ParseWebRemoteLine with a slip: the kind of the entry is not looked at
ParseWebRemoteLineAnyKind(line) ==
    LET trimmed    == TrimSpace(line)
        parts      == SplitN2(trimmed)
        csurfValue == parts[2]
        csurfID    == Atoi(TrimPrefix(parts[1], CsurfPrefix))
        fields     == Fields(csurfValue)
        port       == Atoi(fields[Len(fields)])
        skip       == [found |-> FALSE, cfg |-> NoConfig]
    IN  IF ~HasPrefix(trimmed, CsurfPrefix) THEN skip
        ELSE IF Len(parts) # 2 THEN skip
        ELSE IF csurfID.err THEN skip
        ELSE IF Len(fields) < 3 THEN skip
        ELSE IF port.err THEN skip
        ELSE [found |-> TRUE,
              cfg   |-> [Port      |-> port.val,
                         Enabled   |-> EnabledFlag(fields[2]),
                         CSurfID   |-> csurfID.val,
                         RawConfig |-> csurfValue]]

\* the body of the scanner loop for one line: either the loop goes on to
\* the next line (found = FALSE) or the function returns the config
ParseWebRemoteLine(line) ==
    LET trimmed    == TrimSpace(line)
        parts      == SplitN2(trimmed)
        csurfKey   == parts[1]
        csurfValue == parts[2]
        isHTTP     == HasPrefix(csurfValue, HTTPPrefix)
        isWEBR     == HasPrefix(csurfValue, WEBRPrefix)
        csurfID    == Atoi(TrimPrefix(csurfKey, CsurfPrefix))
        fields     == Fields(csurfValue)
        portStr    == IF isHTTP THEN fields[3] ELSE fields[Len(fields)]
        port       == Atoi(portStr)
        skip       == [found |-> FALSE, cfg |-> NoConfig]
    IN  IF ~HasPrefix(trimmed, CsurfPrefix) THEN skip
        ELSE IF Len(parts) # 2 THEN skip
        ELSE IF ~(isHTTP \/ isWEBR) THEN skip
        ELSE IF csurfID.err THEN skip
        ELSE IF Len(fields) < 3 THEN skip
        ELSE IF port.err THEN skip
        ELSE [found |-> TRUE,
              cfg   |-> [Port      |-> port.val,
                         Enabled   |-> EnabledFlag(fields[2]),
                         CSurfID   |-> csurfID.val,
                         RawConfig |-> csurfValue]]

\* ResolveFrom with a slip: a disabled entry is passed over
RECURSIVE ResolveFromEnabledOnly(_, _)
ResolveFromEnabledOnly(lines, i) ==
    IF i > Len(lines)
    THEN [err |-> "csurf_not_found", cfg |-> NoConfig, line |-> 0]
    ELSE LET r == ParseWebRemoteLine(lines[i])
         IN  IF r.found /\ r.cfg.Enabled
             THEN [err |-> "", cfg |-> r.cfg, line |-> i]
             ELSE ResolveFromEnabledOnly(lines, i + 1)

\* the scanner loop: the first line that yields a config ends it
RECURSIVE ResolveFrom(_, _)
ResolveFrom(lines, i) ==
    IF i > Len(lines)
    THEN [err |-> "csurf_not_found", cfg |-> NoConfig, line |-> 0]
    ELSE LET r == ParseWebRemoteLine(lines[i])
         IN  IF r.found
             THEN [err |-> "", cfg |-> r.cfg, line |-> i]
             ELSE ResolveFrom(lines, i + 1)

\* GetReaperIniPath, as far as the registry depends on it: the path is
\* found exactly when reaper.ini exists
GetReaperIniPath(f) == IF f.exists THEN "" ELSE "ini_not_found"

\* the result of GetWebRemoteConfig on a file (line is the 1-based number
\* of the line the config was taken from, kept for the properties)
ResolveConfig(f) ==
    IF GetReaperIniPath(f) # ""
    THEN [err |-> GetReaperIniPath(f), cfg |-> NoConfig, line |-> 0]
    ELSE ResolveFrom(ScanLines(f.data), 1)

(***************************************************************************)
(* SetWebRemotePort.  Indices are those of the Go code: 0-based, -1 for    *)
(* "none"; lines[k] of the code is lines[k + 1] here.                      *)
(***************************************************************************)
\* ScanStep with a slip: only HTTP and WEBR entries count for the maximum
ScanStepWebRemoteOnly(st, line, lineIndex) ==
    LET trimmed == TrimSpace(line)
        parts   == SplitN2(trimmed)
        id      == Atoi(TrimPrefix(parts[1], CsurfPrefix))
        isCsurf == /\ HasPrefix(trimmed, CsurfPrefix)
                   /\ Len(parts) = 2
                   /\ ~id.err
        isWeb   == \/ HasPrefix(parts[2], HTTPPrefix)
                   \/ HasPrefix(parts[2], WEBRPrefix)
        st1     == IF isCsurf
                   THEN [st EXCEPT
                           !.maxCSurfID  = IF isWeb /\ id.val > @
                                           THEN id.val ELSE @,
                           !.insertIndex = lineIndex + 1]
                   ELSE st
    IN  IF HasPrefix(trimmed, CsurfCntPrefix)
        THEN [st1 EXCEPT !.csurfCntLineIndex = lineIndex]
        ELSE st1

\* one iteration of the scanner loop, on the line at lineIndex
ScanStep(st, line, lineIndex) ==
    LET trimmed == TrimSpace(line)
        parts   == SplitN2(trimmed)
        id      == Atoi(TrimPrefix(parts[1], CsurfPrefix))
        isCsurf == /\ HasPrefix(trimmed, CsurfPrefix)
                   /\ Len(parts) = 2
                   /\ ~id.err
        st1     == IF isCsurf
                   THEN [st EXCEPT
                           !.maxCSurfID  = IF id.val > @ THEN id.val ELSE @,
                           !.insertIndex = lineIndex + 1]
                   ELSE st
    IN  IF HasPrefix(trimmed, CsurfCntPrefix)
        THEN [st1 EXCEPT !.csurfCntLineIndex = lineIndex]
        ELSE st1

RECURSIVE ScanCSurf(_, _, _)
ScanCSurf(lines, lineIndex, st) ==
    IF lineIndex >= Len(lines) THEN st
    ELSE ScanCSurf(lines, lineIndex + 1,
                   ScanStep(st, lines[lineIndex + 1], lineIndex))

ScanInit == [maxCSurfID |-> -1, csurfCntLineIndex |-> -1, insertIndex |-> -1]

NewCSurfID(maxCSurfID) == maxCSurfID + 1

\* fmt.Sprintf("csurf_%d=HTTP 1 %d '' 'index.html' 0 ''", newCSurfID, newPort)
NewCSurfLine(newCSurfID, newPort) ==
    CsurfPrefix \o Itoa(newCSurfID) \o <<"=">> \o HTTPPrefix \o <<"1", " ">>
        \o Itoa(newPort) \o EntryTail

\* fmt.Sprintf("csurf_cnt=%d", newCSurfID)
CsurfCntLine(newCSurfID) == CsurfCntPrefix \o Itoa(newCSurfID)

\* InsertLine with a slip: the line after the insertion point is lost
InsertLineDropsNext(lines, insertIndex, newCSurfLine) ==
    IF insertIndex = -1
    THEN Append(lines, newCSurfLine)
    ELSE SubSeq(lines, 1, insertIndex) \o <<newCSurfLine>>
            \o SubSeq(lines, insertIndex + 2, Len(lines))

\* InsertLine with a slip: the last entry is overwritten by the new one
InsertLineOverwrites(lines, insertIndex, newCSurfLine) ==
    IF insertIndex = -1
    THEN Append(lines, newCSurfLine)
    ELSE [lines EXCEPT ![insertIndex] = newCSurfLine]

\* InsertLine with a slip: the new entry becomes the first line of the file
InsertLineAtTop(lines, insertIndex, newCSurfLine) ==
    <<newCSurfLine>> \o lines

\* InsertLine with a slip: the new line goes before the last entry
InsertLineBeforeLast(lines, insertIndex, newCSurfLine) ==
    IF insertIndex = -1
    THEN Append(lines, newCSurfLine)
    ELSE SubSeq(lines, 1, insertIndex - 1) \o <<newCSurfLine>>
            \o SubSeq(lines, insertIndex, Len(lines))

\* "Insert the new line"
InsertLine(lines, insertIndex, newCSurfLine) ==
    IF insertIndex = -1
    THEN Append(lines, newCSurfLine)
    ELSE SubSeq(lines, 1, insertIndex) \o <<newCSurfLine>>
            \o SubSeq(lines, insertIndex + 1, Len(lines))

\* AdjustCntIndex with a slip: the index is not moved past the new line
AdjustCntIndexNever(csurfCntLineIndex, insertIndex) == csurfCntLineIndex

\* "Adjust csurfCntLineIndex if needed"
AdjustCntIndex(csurfCntLineIndex, insertIndex) ==
    IF insertIndex # -1 /\ csurfCntLineIndex >= insertIndex
    THEN csurfCntLineIndex + 1
    ELSE csurfCntLineIndex

\* "Update csurf_cnt if it exists", "Add csurf_cnt if it doesn't exist"
UpdateCsurfCnt(lines, csurfCntLineIndex, newCSurfID) ==
    IF csurfCntLineIndex # -1
    THEN [lines EXCEPT ![csurfCntLineIndex + 1] = CsurfCntLine(newCSurfID)]
    ELSE Append(lines, CsurfCntLine(newCSurfID))

\* PortLines with a slip: a port some entry already has creates nothing
PortLinesDedup(lines, newPort) ==
    LET st         == ScanCSurf(lines, 0, ScanInit)
        newCSurfID == NewCSurfID(st.maxCSurfID)
        inserted   == InsertLine(lines, st.insertIndex,
                                 NewCSurfLine(newCSurfID, newPort))
        cntIndex   == AdjustCntIndex(st.csurfCntLineIndex, st.insertIndex)
        same       == {k \in 1..Len(lines) :
                          /\ ParseWebRemoteLine(lines[k]).found
                          /\ ParseWebRemoteLine(lines[k]).cfg.Port = newPort}
    IN  IF same # {}
        THEN [lines      |-> lines,
              newCSurfID |-> ParseWebRemoteLine(
                                 lines[CHOOSE k \in same : TRUE]).cfg.CSurfID]
        ELSE [lines      |-> UpdateCsurfCnt(inserted, cntIndex, newCSurfID),
              newCSurfID |-> newCSurfID]

\* the lines SetWebRemotePort writes for the lines it read
PortLines(lines, newPort) ==
    LET st         == ScanCSurf(lines, 0, ScanInit)
        newCSurfID == NewCSurfID(st.maxCSurfID)
        inserted   == InsertLine(lines, st.insertIndex,
                                 NewCSurfLine(newCSurfID, newPort))
        cntIndex   == AdjustCntIndex(st.csurfCntLineIndex, st.insertIndex)
    IN  [lines      |-> UpdateCsurfCnt(inserted, cntIndex, newCSurfID),
         newCSurfID |-> newCSurfID]

(***************************************************************************)
(* SetWebRemoteEnabled.                                                    *)
(***************************************************************************)
EnabledVal(enabled) == IF enabled THEN <<"1">> ELSE <<"0">>

\* ToggleLine with a slip: the kind of the entry is not looked at
ToggleLineAnyKind(line, enabledVal) ==
    LET trimmed    == TrimSpace(line)
        parts      == SplitN2(trimmed)
        csurfKey   == parts[1]
        csurfValue == parts[2]
        fields     == Fields(csurfValue)
        keep       == [modified |-> FALSE, line |-> line]
    IN  IF ~HasPrefix(trimmed, CsurfPrefix) THEN keep
        ELSE IF Len(parts) # 2 THEN keep
        ELSE IF Len(fields) < 2 THEN keep
        ELSE [modified |-> TRUE,
              line     |-> csurfKey \o <<"=">>
                             \o Join([fields EXCEPT ![2] = enabledVal], <<SP>>)]

\* the body of the scanner loop for one line while modified is false
ToggleLine(line, enabledVal) ==
    LET trimmed    == TrimSpace(line)
        parts      == SplitN2(trimmed)
        csurfKey   == parts[1]
        csurfValue == parts[2]
        fields     == Fields(csurfValue)
        keep       == [modified |-> FALSE, line |-> line]
    IN  IF ~HasPrefix(trimmed, CsurfPrefix) THEN keep
        ELSE IF Len(parts) # 2 THEN keep
        ELSE IF ~(HasPrefix(csurfValue, HTTPPrefix)
                    \/ HasPrefix(csurfValue, WEBRPrefix)) THEN keep
        ELSE IF Len(fields) < 2 THEN keep
        ELSE [modified |-> TRUE,
              line     |-> csurfKey \o <<"=">>
                             \o Join([fields EXCEPT ![2] = enabledVal], <<SP>>)]

\* the scanner loop: target is the 1-based number of the rewritten line
RECURSIVE ToggleFrom(_, _, _, _)
ToggleFrom(lines, i, enabledVal, acc) ==
    IF i > Len(lines) THEN acc
    ELSE LET r == IF acc.modified
                  THEN [modified |-> FALSE, line |-> lines[i]]
                  ELSE ToggleLine(lines[i], enabledVal)
         IN  ToggleFrom(lines, i + 1, enabledVal,
                        [lines    |-> Append(acc.lines, r.line),
                         modified |-> acc.modified \/ r.modified,
                         target   |-> IF r.modified THEN i ELSE acc.target])

EnabledLines(lines, enabled) ==
    ToggleFrom(lines, 1, EnabledVal(enabled),
               [lines |-> <<>>, modified |-> FALSE, target |-> 0])

\* strings.Join(lines, "\n") and os.WriteFile
WriteFile(lines) == [exists |-> TRUE, data |-> Join(lines, <<LF>>)]

(***************************************************************************)
(* The reaper.ini files the exploration starts from.                       *)
(***************************************************************************)
LineHTTP0    == <<"c", "s", "u", "r", "f", "_", "0", "=", "H", "T", "T", "P", " ", "0", " ", "2", "3", "0", "7", " ", "'", "'", " ", "'", "i", "n", "d", "e", "x", ".", "h", "t", "m", "l", "'", " ", "0", " ", "'", "'">>
LineHTTP2    == <<" ", " ", "c", "s", "u", "r", "f", "_", "2", "=", "H", "T", "T", "P", " ", " ", "1", " ", "8", "0", "8", "0">>
LineWEBR3    == <<"c", "s", "u", "r", "f", "_", "3", "=", "W", "E", "B", "R", " ", "0", " ", "0", " ", "-", " ", "9", "0", "0", "0">>
LineOSC5     == <<"c", "s", "u", "r", "f", "_", "5", "=", "O", "S", "C", " ", "1", " ", "8", "0", "0", "0">>
LineBadKey   == <<"c", "s", "u", "r", "f", "_", "x", "=", "H", "T", "T", "P", " ", "0", " ", "7", "0">>
LineShort4   == <<"c", "s", "u", "r", "f", "_", "4", "=", "H", "T", "T", "P", " ", "1">>
LineBadPort6 == <<"c", "s", "u", "r", "f", "_", "6", "=", "W", "E", "B", "R", " ", "1", " ", "-", " ", "p">>
LineCnt      == <<"c", "s", "u", "r", "f", "_", "c", "n", "t", "=", "0">>
LineBlank    == <<>>

Catalogue ==
    {LineHTTP0, LineHTTP2, LineWEBR3, LineOSC5, LineBadKey, LineShort4,
     LineBadPort6, LineCnt, LineBlank}

\* sequences of pairwise different catalogue lines: keys are unique in the
\* file, so there is at most one csurf_cnt line and no id occurs twice
LineSeqs ==
    UNION {{ls \in [1..n -> Catalogue] :
               \A i, j \in 1..n : i # j => ls[i] # ls[j]} : n \in 0..MaxLines}

\* a text file: every line ends with a newline
Content(ls) == Join(ls, <<LF>>) \o (IF ls = <<>> THEN <<>> ELSE <<LF>>)

NoFile == [exists |-> FALSE, data |-> <<>>]

InitialFiles ==
    {NoFile} \cup {[exists |-> TRUE, data |-> Content(ls)] : ls \in LineSeqs}

\* the ports the calls are made with
Ports == {8080, 9000}

(***************************************************************************)
(* The state machine: reaper.ini, the settings of the Manager, the answer  *)
(* REAPER gives on /_/TRACK, and what the last call did.                   *)
(***************************************************************************)
\* nothing listens on the port of the web remote
NoEndpoint == [outcome |-> "connect_failed", status |-> 0, body |-> <<>>]

\* "http://localhost:"
LocalhostURL == <<"h", "t", "t", "p", ":", "/", "/", "l", "o", "c", "a", "l", "h", "o", "s", "t", ":">>

\* the nil *WebRemoteClient
NoClient == [isNil |-> TRUE, baseURL |-> <<>>]

\* fmt.Sprintf("http://localhost:%d", port)
ClientFor(port) == [isNil |-> FALSE, baseURL |-> LocalhostURL \o Itoa(port)]

\* the processes that call the registry, and a call none of them has begun
Callers == {"a", "b"}

Idle ==
    [stage |-> "idle", op |-> "none", port |-> 0, enabled |-> FALSE,
     before |-> [exists |-> FALSE, data |-> <<>>], err |-> "",
     newCSurfID |-> -1]

NoCallers == [c \in Callers |-> Idle]

\* NewManager: no settings are loaded yet (the nil pointer)
NewManager == [loaded |-> FALSE, ScriptsDir |-> "", WebRemotePort |-> 0]

NoCall ==
    [op |-> "none", port |-> 0, enabled |-> FALSE, err |-> "",
     before |-> NoFile, wrote |-> FALSE, lines |-> <<>>,
     cfg |-> NoConfig, newCSurfID |-> -1, target |-> 0]

Init ==
    /\ file \in InitialFiles
    /\ orig = file
    /\ created = <<>>
    /\ nOps = 0
    /\ last = NoCall
    /\ settings = NewManager
    /\ endpoint = NoEndpoint
    /\ client = NoClient
    /\ polls = <<>>
    /\ inflight = NoCallers

GetWebRemoteConfig ==
    /\ LET r == ResolveConfig(file)
       IN  last' = [NoCall EXCEPT
                      !.op     = "GetWebRemoteConfig",
                      !.err    = r.err,
                      !.before = file,
                      !.cfg    = r.cfg,
                      !.target = r.line]
    /\ UNCHANGED <<file, orig, created, nOps, settings, endpoint, client, polls,
                 inflight>>

SetWebRemotePort(newPort) ==
    /\ nOps < MaxOps
    /\ nOps' = nOps + 1
    /\ UNCHANGED <<orig, settings, endpoint, client, polls, inflight>>
    /\ IF GetReaperIniPath(file) # ""
       THEN /\ last' = [NoCall EXCEPT
                          !.op = "SetWebRemotePort", !.port = newPort,
                          !.err = GetReaperIniPath(file), !.before = file]
            /\ UNCHANGED <<file, created>>
       ELSE LET lines == ScanLines(file.data)
                r     == PortLines(lines, newPort)
            IN  /\ file' = WriteFile(r.lines)
                /\ created' = Append(created,
                                     [id |-> r.newCSurfID, port |-> newPort])
                /\ last' = [NoCall EXCEPT
                              !.op = "SetWebRemotePort", !.port = newPort,
                              !.before = file,
                              !.wrote = TRUE, !.lines = r.lines,
                              !.newCSurfID = r.newCSurfID]

SetWebRemoteEnabled(enabled) ==
    /\ nOps < MaxOps
    /\ nOps' = nOps + 1
    /\ UNCHANGED <<orig, created, settings, endpoint, client, polls, inflight>>
    /\ IF GetReaperIniPath(file) # ""
       THEN /\ last' = [NoCall EXCEPT
                          !.op = "SetWebRemoteEnabled", !.enabled = enabled,
                          !.err = GetReaperIniPath(file), !.before = file]
            /\ UNCHANGED file
       ELSE LET lines == ScanLines(file.data)
                r     == EnabledLines(lines, enabled)
            IN  IF ~r.modified
                THEN /\ last' = [NoCall EXCEPT
                                   !.op = "SetWebRemoteEnabled",
                                   !.enabled = enabled,
                                   !.err = "csurf_not_found",
                                   !.before = file]
                     /\ UNCHANGED file
                ELSE /\ file' = WriteFile(r.lines)
                     /\ last' = [NoCall EXCEPT
                                   !.op = "SetWebRemoteEnabled",
                                   !.enabled = enabled,
                                   !.before = file,
                                   !.wrote = TRUE, !.lines = r.lines,
                                   !.target = r.target]

Next ==
    \/ GetWebRemoteConfig
    \/ \E newPort \in Ports : SetWebRemotePort(newPort)
    \/ \E enabled \in BOOLEAN : SetWebRemoteEnabled(enabled)

Spec == Init /\ [][Next]_vars

(***************************************************************************)
(* GetWebRemotePort and NewWebRemoteClient.                                *)
(***************************************************************************)
\* the result of GetWebRemotePort on a file: the port of the config, or
\* port 0 with the error of GetWebRemoteConfig
DetectPort(f) ==
    LET r == ResolveConfig(f)
    IN  IF r.err # "" THEN [port |-> 0, err |-> r.err]
        ELSE [port |-> r.cfg.Port, err |-> ""]

\* NewClient with a slip: a failed detection falls back to port 2307
NewClientDefaulting(port, f) ==
    LET detected == DetectPort(f)
    IN  IF port # 0 THEN [client |-> ClientFor(port), err |-> ""]
        ELSE IF detected.err # "" THEN [client |-> ClientFor(2307), err |-> ""]
        ELSE [client |-> ClientFor(detected.port), err |-> ""]

\* the result of NewWebRemoteClient(port) when reaper.ini is f; f is read
\* only when port is 0
NewClient(port, f) ==
    LET detected == DetectPort(f)
    IN  IF port # 0 THEN [client |-> ClientFor(port), err |-> ""]
        ELSE IF detected.err # ""
        THEN [client |-> NoClient, err |-> "detect_failed"]
        ELSE [client |-> ClientFor(detected.port), err |-> ""]

(***************************************************************************)
(* The settings Manager.                                                   *)
(***************************************************************************)
\* platform.DefaultScriptsDir()
DefaultScriptsDir == "DefaultScriptsDir"

\* GetDefaultSettings
GetDefaultSettings ==
    [loaded |-> TRUE, ScriptsDir |-> DefaultScriptsDir, WebRemotePort |-> 8080]

\* A JSON text, as far as json.Unmarshal into types.Settings looks at it:
\* whether it is well-formed, which of the two keys it has, and the JSON
\* type and the value of each.
SettingsDoc(valid, keys, portKind, port, dir) ==
    [valid |-> valid, keys |-> keys, portKind |-> portKind, port |-> port,
     dir |-> dir]

\* json.Unmarshal into a zero types.Settings: a key that is absent leaves
\* the zero value, a web_remote_port that is no JSON number is an error
Unmarshal(doc) ==
    IF ~doc.valid THEN [err |-> TRUE, settings |-> NewManager]
    ELSE IF "web_remote_port" \in doc.keys /\ doc.portKind # "number"
    THEN [err |-> TRUE, settings |-> NewManager]
    ELSE [err |-> FALSE,
          settings |->
              [loaded        |-> TRUE,
               ScriptsDir    |-> IF "scripts_dir" \in doc.keys
                                 THEN doc.dir ELSE "",
               WebRemotePort |-> IF "web_remote_port" \in doc.keys
                                 THEN doc.port ELSE 0]]

\* GetCurrentSettings: "initializing if needed"
CurrentSettings(s) == IF ~s.loaded THEN GetDefaultSettings ELSE s

\* loadSettingsFromAPI: env is what the working directory holds, whether
\* agents.json names a current agent, and the settings file of that agent
\* (absent, or a JSON text)
loadSettingsFromAPI(env) ==
    IF ~env.hasAgent THEN GetDefaultSettings
    ELSE IF env.hasFile /\ ~Unmarshal(env.doc).err
    THEN Unmarshal(env.doc).settings
    ELSE GetDefaultSettings

\* the settings GetWebRemotePort works with: loaded from the agent file
\* when none are loaded yet
LoadedSettings(s, env) ==
    CurrentSettings(IF ~s.loaded THEN loadSettingsFromAPI(env) ELSE s)

\* getAutoDetectedPort
getAutoDetectedPort(f) ==
    LET r == ResolveConfig(f)
    IN  IF r.err = "" THEN r.cfg.Port ELSE 2307

\* the port Manager.GetWebRemotePort returns with settings s
ManagerPort(s, f) ==
    IF s.WebRemotePort # 0 THEN s.WebRemotePort ELSE getAutoDetectedPort(f)

(***************************************************************************)
(* The inputs of the port resolution: one-entry reaper.ini files over the  *)
(* flag and port tokens, settings documents, agent directories.            *)
(***************************************************************************)
FlagTokens == {<<"0">>, <<"1">>, <<"2">>, TrueWord}

PortTokens ==
    {<<"0">>, <<"-", "1">>, <<"8", "0">>, <<"8", "0", "8", "0">>,
     <<"6", "5", "5", "3", "5">>, <<"6", "5", "5", "3", "6">>}

\* csurf_0=HTTP <flag> <port> '' 'index.html' 0 ''
HTTPEntry(flag, port) ==
    CsurfPrefix \o <<"0", "=">> \o HTTPPrefix \o flag \o <<SP>> \o port
        \o EntryTail

\* csurf_0=WEBR <flag> 0 - <port>
WEBREntry(flag, port) ==
    CsurfPrefix \o <<"0", "=">> \o WEBRPrefix \o flag
        \o <<SP, "0", SP, "-", SP>> \o port

PortFiles ==
    {NoFile, [exists |-> TRUE, data |-> Content(<<LineOSC5>>)],
     [exists |-> TRUE, data |-> Content(<<LineHTTP2>>)],
     [exists |-> TRUE, data |-> Content(<<LineOSC5, LineWEBR3>>)]}
        \cup {[exists |-> TRUE, data |-> Content(<<HTTPEntry(fl, p)>>)] :
                 fl \in FlagTokens, p \in PortTokens}
        \cup {[exists |-> TRUE, data |-> Content(<<WEBREntry(fl, p)>>)] :
                 fl \in FlagTokens, p \in PortTokens}

\* the ports NewWebRemoteClient is called with
ClientPorts == {0, 8080, -1}

SettingsDocs ==
    {SettingsDoc(FALSE, {}, "number", 0, ""),
     SettingsDoc(TRUE, {}, "number", 0, ""),
     SettingsDoc(TRUE, {"scripts_dir"}, "number", 0, "Scripts"),
     SettingsDoc(TRUE, {"scripts_dir", "web_remote_port"}, "number", 0,
                 "Scripts"),
     SettingsDoc(TRUE, {"scripts_dir", "web_remote_port"}, "number", 9000,
                 "Scripts"),
     SettingsDoc(TRUE, {"scripts_dir", "web_remote_port"}, "string", 0,
                 "Scripts")}

AgentDirs ==
    {[hasAgent |-> FALSE, hasFile |-> FALSE,
      doc |-> SettingsDoc(FALSE, {}, "number", 0, "")]}
        \cup {[hasAgent |-> TRUE, hasFile |-> FALSE,
               doc |-> SettingsDoc(FALSE, {}, "number", 0, "")]}
        \cup {[hasAgent |-> TRUE, hasFile |-> TRUE, doc |-> d] :
                 d \in SettingsDocs}

(***************************************************************************)
(* The port resolution as a state machine.                                 *)
(***************************************************************************)
PortInit ==
    /\ file \in PortFiles
    /\ orig = file
    /\ created = <<>>
    /\ nOps = 0
    /\ last = NoCall
    /\ settings = NewManager
    /\ endpoint = NoEndpoint
    /\ client = NoClient
    /\ polls = <<>>
    /\ inflight = NoCallers

GetWebRemotePort ==
    /\ LET r == DetectPort(file)
       IN  last' = [op |-> "GetWebRemotePort", err |-> r.err, port |-> r.port]
    /\ UNCHANGED <<file, orig, created, nOps, settings, endpoint, client, polls,
                 inflight>>

NewWebRemoteClient(port) ==
    /\ LET r == NewClient(port, file)
       IN  /\ last' = [op |-> "NewWebRemoteClient", port |-> port,
                        err |-> r.err, client |-> r.client]
           /\ client' = r.client
    /\ UNCHANGED <<file, orig, created, nOps, settings, endpoint, polls,
                 inflight>>

SetSettings(doc) ==
    /\ LET r == Unmarshal(doc)
       IN  /\ settings' = IF r.err THEN settings ELSE r.settings
           /\ last' = [op |-> "SetSettings", doc |-> doc,
                       err |-> IF r.err THEN "unmarshal_failed" ELSE ""]
    /\ UNCHANGED <<file, orig, created, nOps, endpoint, client, polls,
                 inflight>>

GetCurrentSettings ==
    /\ settings' = CurrentSettings(settings)
    /\ last' = [op |-> "GetCurrentSettings", err |-> ""]
    /\ UNCHANGED <<file, orig, created, nOps, endpoint, client, polls,
                 inflight>>

ManagerGetWebRemotePort(env) ==
    /\ settings' = LoadedSettings(settings, env)
    /\ last' = [op |-> "Manager.GetWebRemotePort", err |-> "",
                was |-> settings, env |-> env,
                port |-> ManagerPort(LoadedSettings(settings, env), file)]
    /\ UNCHANGED <<file, orig, created, nOps, endpoint, client, polls,
                 inflight>>

PortNext ==
    \/ GetWebRemoteConfig
    \/ GetWebRemotePort
    \/ \E port \in ClientPorts : NewWebRemoteClient(port)
    \/ \E doc \in SettingsDocs : SetSettings(doc)
    \/ GetCurrentSettings
    \/ \E env \in AgentDirs : ManagerGetWebRemotePort(env)

PortSpec == PortInit /\ [][PortNext]_vars

(***************************************************************************)
(* The mutating calls with their input and output failing.  os.WriteFile   *)
(* opens the file with O_TRUNC and then writes: it "requires multiple      *)
(* system calls to complete, a failure mid-operation can leave the file in *)
(* a partially written state".                                             *)
(***************************************************************************)
\* most mutating calls in one run in which input and output may fail
MaxFaultOps == 1

\* what happens to the reads of one call: they succeed, the path cannot be
\* made (no home directory, APPDATA not set, a platform that is not
\* supported), os.Open fails, or the scanner stops with an error
ReadOutcomes == {"ok", "path_error", "open_error", "scan_error"}

\* what happens to the os.WriteFile of one call: it completes, it fails to
\* open the file, it fails (or the process is stopped) right after the
\* truncation, or after half of the content
WriteOutcomes == {"ok", "denied", "truncated", "partial"}

\* the bytes of content that reach the file under a write outcome
WrittenBytes(content, wr) ==
    IF wr = "ok" THEN content
    ELSE IF wr = "truncated" THEN <<>>
    ELSE SubSeq(content, 1, Len(content) \div 2)

\* os.WriteFile(iniPath, []byte(content), 0644) on file f
WriteFileIO(f, content, wr) ==
    IF wr = "denied" THEN [file |-> f, err |-> "write_failed"]
    ELSE [file |-> [exists |-> TRUE, data |-> WrittenBytes(content, wr)],
          err  |-> IF wr = "ok" THEN "" ELSE "write_failed"]

\* the part of a call before its write: the error it returns, if any
ReadIO(f, rd) ==
    IF rd = "path_error" THEN "path_failed"
    ELSE IF GetReaperIniPath(f) # "" THEN GetReaperIniPath(f)
    ELSE IF rd = "open_error" THEN "open_failed"
    ELSE IF rd = "scan_error" THEN "read_failed"
    ELSE ""

\* GetWebRemoteConfig when the scanner stops with an error after it has
\* delivered n lines: the config of an entry among these, the read error
\* otherwise
ResolveConfigIO(f, rd, n) ==
    LET lines   == ScanLines(f.data)
        scanned == IF rd = "scan_error" /\ n < Len(lines)
                   THEN SubSeq(lines, 1, n) ELSE lines
        r       == ResolveFrom(scanned, 1)
        Fail(e) == [err |-> e, cfg |-> NoConfig, line |-> 0]
    IN  IF rd = "path_error" THEN Fail("path_failed")
        ELSE IF GetReaperIniPath(f) # "" THEN Fail(GetReaperIniPath(f))
        ELSE IF rd = "open_error" THEN Fail("open_failed")
        ELSE IF r.err = "" THEN r
        ELSE IF rd = "scan_error" THEN Fail("read_failed")
        ELSE r

FaultInit ==
    /\ file \in InitialFiles
    /\ orig = file
    /\ created = <<>>
    /\ nOps = 0
    /\ last = NoCall
    /\ settings = NewManager
    /\ endpoint = NoEndpoint
    /\ client = NoClient
    /\ polls = <<>>
    /\ inflight = NoCallers

GetWebRemoteConfigIO(rd, n) ==
    /\ LET r == ResolveConfigIO(file, rd, n)
       IN  last' = [op |-> "GetWebRemoteConfig", err |-> r.err,
                    before |-> file, cfg |-> r.cfg, target |-> r.line,
                    rd |-> rd, scanned |-> n]
    /\ UNCHANGED <<file, orig, created, nOps, settings, endpoint, client, polls,
                   inflight>>

SetWebRemotePortIO(newPort, rd, wr) ==
    /\ nOps < MaxFaultOps
    /\ nOps' = nOps + 1
    /\ UNCHANGED <<orig, created, settings, endpoint, client, polls, inflight>>
    /\ IF ReadIO(file, rd) # ""
       THEN /\ last' = [NoCall EXCEPT
                          !.op = "SetWebRemotePort", !.port = newPort,
                          !.err = ReadIO(file, rd), !.before = file]
            /\ UNCHANGED file
       ELSE LET r == PortLines(ScanLines(file.data), newPort)
                w == WriteFileIO(file, Join(r.lines, <<LF>>), wr)
            IN  /\ file' = w.file
                /\ last' = [NoCall EXCEPT
                              !.op = "SetWebRemotePort", !.port = newPort,
                              !.err = w.err, !.before = file,
                              !.wrote = TRUE, !.lines = r.lines,
                              !.newCSurfID = r.newCSurfID]

SetWebRemoteEnabledIO(enabled, rd, wr) ==
    /\ nOps < MaxFaultOps
    /\ nOps' = nOps + 1
    /\ UNCHANGED <<orig, created, settings, endpoint, client, polls, inflight>>
    /\ IF ReadIO(file, rd) # ""
       THEN /\ last' = [NoCall EXCEPT
                          !.op = "SetWebRemoteEnabled", !.enabled = enabled,
                          !.err = ReadIO(file, rd), !.before = file]
            /\ UNCHANGED file
       ELSE LET r == EnabledLines(ScanLines(file.data), enabled)
                w == WriteFileIO(file, Join(r.lines, <<LF>>), wr)
            IN  IF ~r.modified
                THEN /\ last' = [NoCall EXCEPT
                                   !.op = "SetWebRemoteEnabled",
                                   !.enabled = enabled,
                                   !.err = "csurf_not_found",
                                   !.before = file]
                     /\ UNCHANGED file
                ELSE /\ file' = w.file
                     /\ last' = [NoCall EXCEPT
                                   !.op = "SetWebRemoteEnabled",
                                   !.enabled = enabled,
                                   !.err = w.err, !.before = file,
                                   !.wrote = TRUE, !.lines = r.lines,
                                   !.target = r.target]

FaultNext ==
    \/ \E newPort \in Ports, rd \in ReadOutcomes, wr \in WriteOutcomes :
          SetWebRemotePortIO(newPort, rd, wr)
    \/ \E enabled \in BOOLEAN, rd \in ReadOutcomes, wr \in WriteOutcomes :
          SetWebRemoteEnabledIO(enabled, rd, wr)

FaultSpec == FaultInit /\ [][FaultNext]_vars

\* the reading call alone, with its input failing
ReadFaultNext ==
    \E rd \in ReadOutcomes, n \in 0..MaxLines : GetWebRemoteConfigIO(rd, n)

ReadFaultSpec == FaultInit /\ [][ReadFaultNext]_vars

(***************************************************************************)
(* Floating point.  A float64 is modelled as a decimal number mant * 10^exp *)
(* (normalised: mant has no trailing zero), or as one of NaN, +Inf, -Inf.  *)
(* The decimal tokens of the model are exact in this form; math.Log10 is   *)
(* computed from four significant digits to ten binary places, which is    *)
(* within 0.002 of the logarithm.                                          *)
(***************************************************************************)
RECURSIVE Num(_, _)
Num(mant, exp) ==
    IF mant = 0 THEN [cls |-> "num", mant |-> 0, exp |-> 0]
    ELSE IF mant % 10 = 0 THEN Num(mant \div 10, exp + 1)
    ELSE [cls |-> "num", mant |-> mant, exp |-> exp]

\* the zero value of a float64 field
ZeroFloat == Num(0, 0)

NaN == [cls |-> "nan", mant |-> 0, exp |-> 0]
PosInf == [cls |-> "inf", mant |-> 1, exp |-> 0]
NegInf == [cls |-> "inf", mant |-> -1, exp |-> 0]

\* f > 0, as float64 compares: false for NaN
GreaterThanZero(f) == f.cls # "nan" /\ f.mant > 0

RECURSIVE Pow10(_)
Pow10(n) == IF n = 0 THEN 1 ELSE 10 * Pow10(n - 1)

\* the number of decimal digits of n > 0
NumDigits(n) == Len(ItoaNat(n))

\* the exponent of a number other than 0 in scientific notation
SciExp(f) ==
    NumDigits(IF f.mant < 0 THEN 0 - f.mant ELSE f.mant) - 1 + f.exp

\* the first four significant digits of n > 0, as a number in 1000..9999
Sci4(n) ==
    IF NumDigits(n) >= 4 THEN n \div Pow10(NumDigits(n) - 4)
    ELSE n * Pow10(4 - NumDigits(n))

\* the first n binary digits of log10(x / 1000) for x in 1000..9999, by
\* repeated squaring: the square is 10 or more exactly when the next digit
\* is 1
RECURSIVE LogBits(_, _, _)
LogBits(x, n, acc) ==
    IF n = 0 THEN acc
    ELSE LET sq == (x * x) \div 1000
         IN  IF sq >= 10000 THEN LogBits(sq \div 10, n - 1, 2 * acc + 1)
             ELSE LogBits(sq, n - 1, 2 * acc)

\* math.Log10: NaN below 0 and for NaN, -Inf at 0, +Inf at +Inf
Log10(f) ==
    IF f.cls = "nan" THEN NaN
    ELSE IF f.mant < 0 THEN NaN
    ELSE IF f.cls = "inf" THEN PosInf
    ELSE IF f.mant = 0 THEN NegInf
    ELSE Num(10000 * SciExp(f)
                + (10000 * LogBits(Sci4(f.mant), 10, 0)) \div 1024, -4)

\* k * f for an integer k > 0
Times(k, f) == IF f.cls = "num" THEN Num(k * f.mant, f.exp) ELSE f

UpperLetters == <<"A", "B", "C", "D", "E", "F", "G", "H", "I", "J", "K", "L", "M", "N", "O", "P", "Q", "R", "S", "T", "U", "V", "W", "X", "Y", "Z">>
LowerLetters == <<"a", "b", "c", "d", "e", "f", "g", "h", "i", "j", "k", "l", "m", "n", "o", "p", "q", "r", "s", "t", "u", "v", "w", "x", "y", "z">>

\* the lower-case form of a string
ToLower(s) ==
    [i \in 1..Len(s) |->
        IF \E k \in 1..26 : UpperLetters[k] = s[i]
        THEN LowerLetters[CHOOSE k \in 1..26 : UpperLetters[k] = s[i]]
        ELSE s[i]]

AllDigits(s) == \A i \in 1..Len(s) : IsDigit(s[i])

\* the index of the first e or E of s, 0 when there is none
RECURSIVE ExpMark(_, _)
ExpMark(s, i) ==
    IF i > Len(s) THEN 0
    ELSE IF s[i] \in {"e", "E"} THEN i
    ELSE ExpMark(s, i + 1)

\* the words strconv.ParseFloat reads as infinity and as NaN, whatever the
\* case of their letters; infinity may have a sign
InfWords == {<<"i", "n", "f">>, <<"i", "n", "f", "i", "n", "i", "t", "y">>}
NaNWord == <<"n", "a", "n">>

\* strconv.ParseFloat(s, 64) for decimal tokens: an optional sign, digits
\* with an optional point (one digit at least), an optional exponent.  A
\* token beyond the range of float64 is an error; one below it is 0.
ParseFloat(s) ==
    LET signed  == s # <<>> /\ Head(s) \in {"+", "-"}
        neg     == signed /\ Head(s) = "-"
        body    == IF signed THEN Tail(s) ELSE s
        mark    == ExpMark(body, 1)
        mantStr == IF mark = 0 THEN body ELSE SubSeq(body, 1, mark - 1)
        expStr  == IF mark = 0 THEN <<>>
                   ELSE SubSeq(body, mark + 1, Len(body))
        dot     == IndexFrom(mantStr, ".", 1)
        intStr  == IF dot = 0 THEN mantStr ELSE SubSeq(mantStr, 1, dot - 1)
        fracStr == IF dot = 0 THEN <<>>
                   ELSE SubSeq(mantStr, dot + 1, Len(mantStr))
        syntax  == /\ AllDigits(intStr)
                   /\ AllDigits(fracStr)
                   /\ Len(intStr) + Len(fracStr) > 0
                   /\ mark # 0 => ~Atoi(expStr).err
        mant    == DigitsVal(intStr \o fracStr, 0)
        exp     == (IF mark = 0 THEN 0 ELSE Atoi(expStr).val) - Len(fracStr)
        f       == Num(IF neg THEN 0 - mant ELSE mant, exp)
    IN  IF ToLower(body) \in InfWords
        THEN [err |-> FALSE, val |-> IF neg THEN NegInf ELSE PosInf]
        ELSE IF ToLower(s) = NaNWord THEN [err |-> FALSE, val |-> NaN]
        ELSE IF ~syntax THEN [err |-> TRUE, val |-> ZeroFloat]
        ELSE IF mant = 0 THEN [err |-> FALSE, val |-> ZeroFloat]
        ELSE IF SciExp(f) > 308
        THEN [err |-> TRUE, val |-> IF neg THEN NegInf ELSE PosInf]
        ELSE IF SciExp(f) < -324 THEN [err |-> FALSE, val |-> ZeroFloat]
        ELSE [err |-> FALSE, val |-> f]

(***************************************************************************)
(* parseTrackData and GetTracks.                                           *)
(***************************************************************************)
TAB == "\t"

\* "TRACK"
TagTRACK == <<"T", "R", "A", "C", "K">>

\* strings.Split for a one-character separator
RECURSIVE SplitFrom(_, _, _, _)
SplitFrom(s, c, i, acc) ==
    LET j == IndexFrom(s, c, i)
    IN  IF j = 0 THEN Append(acc, SubSeq(s, i, Len(s)))
        ELSE SplitFrom(s, c, j + 1, Append(acc, SubSeq(s, i, j - 1)))

Split(s, c) == SplitFrom(s, c, 1, <<>>)

\* the zero Track
NoTrack ==
    [Index |-> 0, Name |-> <<>>, Volume |-> ZeroFloat, Pan |-> ZeroFloat,
     Mute |-> FALSE, Solo |-> FALSE, RecArm |-> FALSE, Selected |-> FALSE,
     FXEnabled |-> FALSE]

\* "Field 1: Track index"
IndexOf(field) == IF ~Atoi(field).err THEN Atoi(field).val ELSE 0

\* VolumeOf with a slip: the result of a failed parse is used, as 0
VolumeOfIgnoringError(field) ==
    LET volMult == ParseFloat(field).val
    IN  IF GreaterThanZero(volMult) THEN Times(20, Log10(volMult))
        ELSE Num(-150, 0)

\* "Field 4: Volume multiplier (convert to dB)"
VolumeOf(field) ==
    LET volMult == ParseFloat(field)
    IN  IF volMult.err THEN ZeroFloat
        ELSE IF GreaterThanZero(volMult.val)
        THEN Times(20, Log10(volMult.val))
        ELSE Num(-150, 0)

\* "Field 5: Pan"
PanOf(field) ==
    IF ~ParseFloat(field).err THEN ParseFloat(field).val ELSE ZeroFloat

\* ParseTrackLine with a slip: the solo state 2 does not count as solo
ParseTrackLineSoloOne(rawLine) ==
    LET line   == TrimSpace(rawLine)
        fields == Split(line, TAB)
        skip   == [emit |-> FALSE, track |-> NoTrack]
    IN  IF line = <<>> THEN skip
        ELSE IF Len(fields) < 13 THEN skip
        ELSE IF fields[1] # TagTRACK THEN skip
        ELSE [emit  |-> TRUE,
              track |-> [NoTrack EXCEPT
                           !.Index  = IndexOf(fields[2]),
                           !.Name   = fields[3],
                           !.Volume = VolumeOf(fields[5]),
                           !.Pan    = PanOf(fields[6]),
                           !.Mute   = (fields[11] = <<"1">>),
                           !.Solo   = (fields[12] = <<"1">>),
                           !.RecArm = (fields[13] = <<"1">>)]]

\* the body of the loop for one line: the line is passed over, or a track
\* is appended
ParseTrackLine(rawLine) ==
    LET line   == TrimSpace(rawLine)
        fields == Split(line, TAB)
        skip   == [emit |-> FALSE, track |-> NoTrack]
    IN  IF line = <<>> THEN skip
        ELSE IF Len(fields) < 13 THEN skip
        ELSE IF fields[1] # TagTRACK THEN skip
        ELSE [emit  |-> TRUE,
              track |-> [NoTrack EXCEPT
                           !.Index  = IndexOf(fields[2]),
                           !.Name   = fields[3],
                           !.Volume = VolumeOf(fields[5]),
                           !.Pan    = PanOf(fields[6]),
                           !.Mute   = (fields[11] = <<"1">>),
                           !.Solo   = (fields[12] \in {<<"1">>, <<"2">>}),
                           !.RecArm = (fields[13] = <<"1">>)]]

RECURSIVE ParseTrackLines(_, _, _)
ParseTrackLines(lines, i, tracks) ==
    IF i > Len(lines) THEN tracks
    ELSE LET r == ParseTrackLine(lines[i])
         IN  ParseTrackLines(lines, i + 1,
                             IF r.emit THEN Append(tracks, r.track)
                             ELSE tracks)

\* parseTrackData: the error it returns is always nil
parseTrackData(data) ==
    [tracks |-> ParseTrackLines(Split(TrimSpace(data), LF), 1, <<>>),
     err    |-> ""]

(***************************************************************************)
(* The responses of the /_/TRACK endpoint the exploration answers with.    *)
(***************************************************************************)
\* most lines of one response body
MaxRows == 2

Zero6 == <<"0", ".", "0", "0", "0", "0", "0", "0">>
One6 == <<"1", ".", "0", "0", "0", "0", "0", "0">>
Minus1500 == <<"-", "1", "5", "0", "0">>

\* TRACK\t{index}\t{name}\t{color}\t{volume_mult}\t{pan}\t{?}\t{?}\t{?}\t{?}
\* \t{mute}\t{solo}\t{recarm}, followed by the fields of rest
Row(tag, index, name, vol, pan, mute, solo, recarm, rest) ==
    Join(<<tag, index, name, <<"8">>, vol, pan, Minus1500, Minus1500, One6,
           <<"3">>, mute, solo, recarm>> \o rest, <<TAB>>)

NameA == <<"M", "y", " ", "B", "a", "s", "s">>
NameB == <<"D", "r", "u", "m", "s">>

\* the volume tokens: multipliers 1, 0.5, 2, 0 and -1, no number, the empty
\* token, the words for infinity and NaN, a number beyond float64
VolumeTokens ==
    {One6, <<"0", ".", "5">>, <<"2", ".", "0">>, <<"0">>, <<"-", "1">>,
     <<"a", "b", "c">>, <<>>, <<"I", "n", "f">>, <<"N", "a", "N">>,
     <<"1", "e", "9", "9", "9">>}

\* rows of fourteen fields, as REAPER sends them, over the volume tokens
VolumeRows ==
    {Row(TagTRACK, <<"1">>, NameA, vol, Zero6, <<"0">>, <<"0">>, <<"0">>,
         <<(<<"0">>)>>) : vol \in VolumeTokens}

\* a row with mute, solo and record arm set and a pan to the left
RowFlags ==
    Row(TagTRACK, <<"2">>, NameB, One6, <<"-", "0", ".", "5">>, <<"1">>,
        <<"2">>, <<"1">>, <<(<<"0">>)>>)

\* a row whose index and pan are no numbers
RowBadIndexPan ==
    Row(TagTRACK, <<"x">>, NameB, <<"0", ".", "5">>, <<"L">>, <<"0">>,
        <<"1">>, <<"0">>, <<(<<"0">>)>>)

\* thirteen fields exactly, and sixteen
Row13 ==
    Row(TagTRACK, <<"3">>, NameB, One6, Zero6, <<"0">>, <<"0">>, <<"1">>,
        <<>>)
Row16 ==
    Row(TagTRACK, <<"4">>, NameA, One6, Zero6, <<"0">>, <<"0">>, <<"0">>,
        <<(<<"0">>), <<"7">>, <<"9">>>>)

\* thirteen fields of which the last, the record arm flag, is empty
Row13EmptyLast ==
    Row(TagTRACK, <<"5">>, NameB, One6, Zero6, <<"0">>, <<"0">>, <<>>, <<>>)

\* twelve fields
Row12 ==
    Join(<<TagTRACK, <<"6">>, NameA, <<"8">>, One6, Zero6, Minus1500,
           Minus1500, One6, <<"3">>, <<"0">>, <<"0">>>>, <<TAB>>)

\* another tag, and the tag after a space
RowOtherTag ==
    Row(<<"T", "R", "K">>, <<"7">>, NameA, One6, Zero6, <<"0">>, <<"0">>,
        <<"0">>, <<(<<"0">>)>>)
RowSpaceTag ==
    Row(<<" ", "T", "R", "A", "C", "K">>, <<"8">>, NameA, One6, Zero6,
        <<"0">>, <<"0">>, <<"0">>, <<(<<"0">>)>>)

\* the index, name, volume, pan and flags of RowFlags with another colour,
\* other values in the fields that are not decoded, and two more fields
RowOtherFields ==
    Join(<<TagTRACK, <<"2">>, NameB, <<"1", "5", "3", "6">>, One6,
           <<"-", "0", ".", "5">>, <<"0">>, <<"1">>, <<"a", "b", "c">>, <<>>,
           <<"1">>, <<"2">>, <<"1">>, <<"1">>, <<"1">>>>, <<TAB>>)

\* a name with spaces at both ends and two in a row, a pan beyond the right
RowWidePan ==
    Row(TagTRACK, <<"9">>, <<" ", "M", "y", " ", " ", "B", " ">>, One6,
        <<"2", ".", "5">>, <<"0">>, <<"1">>, <<"0">>, <<(<<"0">>)>>)

TrackRows ==
    VolumeRows \cup {RowFlags, RowBadIndexPan, Row13, Row16, Row13EmptyLast,
                     Row12, RowOtherTag, RowSpaceTag, RowOtherFields,
                     RowWidePan, <<>>}

\* response bodies: up to MaxRows rows, each ended by a newline
TrackBodies ==
    UNION {{Content(rows) : rows \in [1..n -> TrackRows]} : n \in 0..MaxRows}

\* the statuses other than 200 the endpoint answers with
OtherStatuses == {204, 301, 404, 500}

\* what the GET of /_/TRACK comes to: no connection, no answer within the
\* timeout of the client, a status other than 200 (with a body that would
\* parse), a body that cannot be read, or 200 with a body
Responses ==
    {NoEndpoint,
     [outcome |-> "timeout", status |-> 0, body |-> <<>>],
     [outcome |-> "read_failed", status |-> 200, body |-> <<>>]}
        \cup {[outcome |-> "answered", status |-> st,
               body |-> Content(<<RowFlags>>)] : st \in OtherStatuses}
        \cup {[outcome |-> "answered", status |-> 200, body |-> b] :
                 b \in TrackBodies}

(***************************************************************************)
(* The track client as a state machine: a client made for port 8080 by    *)
(* NewWebRemoteClient(8080), and the answer it gets.                       *)
(***************************************************************************)
TrackInit ==
    /\ file = NoFile
    /\ orig = file
    /\ created = <<>>
    /\ nOps = 0
    /\ last = NoCall
    /\ settings = NewManager
    /\ endpoint \in Responses
    /\ client = ClientFor(8080)
    /\ polls = <<>>
    /\ inflight = NoCallers

\* "/_/TRACK"
TrackPath == <<"/", "_", "/", "T", "R", "A", "C", "K">>

\* FetchTracks with a slip: the body is parsed whatever the status is
FetchTracksAnyStatus(wrc, resp) ==
    LET url == wrc.baseURL \o TrackPath
    IN  IF resp.outcome \in {"connect_failed", "timeout"}
        THEN [tracks |-> <<>>, err |-> "connect_failed", errURL |-> url,
              errStatus |-> 0, gets |-> <<url>>]
        ELSE [tracks |-> parseTrackData(resp.body).tracks, err |-> "",
              errURL |-> <<>>, errStatus |-> 0, gets |-> <<url>>]

\* FetchTracks with a slip: after a call that failed, the next call issues no
\* GET and returns the error of the call before
FetchTracksBackingOff(wrc, resp) ==
    LET url == wrc.baseURL \o TrackPath
    IN  IF polls # <<>> /\ polls[Len(polls)].err # ""
        THEN [tracks |-> <<>>, err |-> polls[Len(polls)].err,
              errURL |-> polls[Len(polls)].errURL,
              errStatus |-> polls[Len(polls)].errStatus, gets |-> <<>>]
        ELSE IF resp.outcome \in {"connect_failed", "timeout"}
        THEN [tracks |-> <<>>, err |-> "connect_failed", errURL |-> url,
              errStatus |-> 0, gets |-> <<url>>]
        ELSE IF resp.status # 200
        THEN [tracks |-> <<>>, err |-> "bad_status", errURL |-> <<>>,
              errStatus |-> resp.status, gets |-> <<url>>]
        ELSE IF resp.outcome = "read_failed"
        THEN [tracks |-> <<>>, err |-> "read_failed", errURL |-> <<>>,
              errStatus |-> 0, gets |-> <<url>>]
        ELSE parseTrackData(resp.body) @@
             [errURL |-> <<>>, errStatus |-> 0, gets |-> <<url>>]

\* the result of GetTracks on the client wrc when the GET comes to resp: the
\* tracks (none with an error), the error with the URL or the status code
\* its text carries, and the URLs of the GETs the call issued
FetchTracks(wrc, resp) ==
    LET url     == wrc.baseURL \o TrackPath
        Fail(e) == [tracks |-> <<>>, err |-> e,
                    errURL |-> IF e = "connect_failed" THEN url ELSE <<>>,
                    errStatus |-> IF e = "bad_status" THEN resp.status ELSE 0,
                    gets |-> <<url>>]
    IN  IF resp.outcome \in {"connect_failed", "timeout"}
        THEN Fail("connect_failed")
        ELSE IF resp.status # 200 THEN Fail("bad_status")
        ELSE IF resp.outcome = "read_failed" THEN Fail("read_failed")
        ELSE parseTrackData(resp.body) @@
             [errURL |-> <<>>, errStatus |-> 0, gets |-> <<url>>]

\* the last two of a sequence of results
LastTwo(s) == IF Len(s) > 2 THEN SubSeq(s, Len(s) - 1, Len(s)) ELSE s

GetTracks ==
    /\ ~client.isNil
    /\ \E r \in {FetchTracks(client, endpoint)} :
          /\ last' = [op |-> "GetTracks", resp |-> endpoint, err |-> r.err,
                      tracks |-> r.tracks, errURL |-> r.errURL,
                      errStatus |-> r.errStatus, gets |-> r.gets,
                      baseURL |-> client.baseURL]
          /\ polls' = LastTwo(Append(polls, last'))
    /\ UNCHANGED <<file, orig, created, nOps, settings, endpoint, client,
                   inflight>>

TrackNext == GetTracks

TrackSpec == TrackInit /\ [][TrackNext]_vars

(***************************************************************************)
(* The plugin: ValidateConfig, InitializeWithConfig and the get_tracks     *)
(* operation of Call.  A config is the map the host passes: for each of    *)
(* the two keys what Go type its value has (absent when the key is not in  *)
(* the map) and the value.  A float64 is held in tenths.                   *)
(***************************************************************************)
\* the results of int(v) for a float64 beyond the range of int: the Go
\* specification leaves the result to the implementation, which gives the
\* least or the greatest int
MinInt == -2147483647
MaxInt == 2147483647

\* int(v) for a float64 of t tenths: the fraction is dropped, towards zero
Truncate(t) == IF t >= 0 THEN t \div 10 ELSE 0 - ((0 - t) \div 10)

\* the values port can get in ValidateConfig from a numeric value
IntOf(v) ==
    IF v.kind = "int" THEN {v.val}
    ELSE IF v.huge THEN {MinInt, MaxInt}
    ELSE {Truncate(v.val)}

Absent == [kind |-> "absent", val |-> 0, huge |-> FALSE]
Float64(t) == [kind |-> "float64", val |-> t, huge |-> FALSE]

\* ConfigError with a slip: the privileged ports are accepted
ConfigErrorAnyPort(config, port) ==
    IF config.scripts_dir.kind # "string" \/ config.scripts_dir.val = ""
    THEN "scripts_dir is required"
    ELSE IF config.web_remote_port.kind = "absent" THEN ""
    ELSE IF config.web_remote_port.kind \notin {"float64", "int"}
    THEN "web_remote_port must be a number"
    ELSE IF port < 1 \/ port > 65535
    THEN "web_remote_port must be between 1024 and 65535"
    ELSE ""

\* the error ValidateConfig returns, "" for nil; port is int(v) of the
\* value of web_remote_port
ConfigError(config, port) ==
    IF config.scripts_dir.kind # "string" \/ config.scripts_dir.val = ""
    THEN "scripts_dir is required"
    ELSE IF config.web_remote_port.kind = "absent" THEN ""
    ELSE IF config.web_remote_port.kind \notin {"float64", "int"}
    THEN "web_remote_port must be a number"
    ELSE IF port < 1024 \/ port > 65535
    THEN "web_remote_port must be between 1024 and 65535"
    ELSE ""

\* json.MarshalIndent(config, "", "  ") as json.Unmarshal sees it: a float64
\* with a fraction (or in exponent form, as the huge ones are) is a JSON
\* number that is no integer
MarshalConfig(config) ==
    LET dir  == config.scripts_dir
        port == config.web_remote_port
    IN  SettingsDoc(TRUE,
                    (IF dir.kind = "absent" THEN {} ELSE {"scripts_dir"})
                        \cup (IF port.kind = "absent" THEN {}
                              ELSE {"web_remote_port"}),
                    IF port.kind = "int" THEN "number"
                    ELSE IF port.kind # "float64" THEN port.kind
                    ELSE IF port.huge \/ port.val % 10 # 0 THEN "fraction"
                    ELSE "number",
                    IF port.kind = "int" THEN port.val
                    ELSE IF port.kind = "float64" /\ ~port.huge
                    THEN Truncate(port.val)
                    ELSE 0,
                    IF dir.kind = "string" THEN dir.val ELSE "")

\* the values of scripts_dir and of web_remote_port the host passes
DirValues ==
    {[kind |-> "absent", val |-> ""], [kind |-> "string", val |-> ""],
     [kind |-> "string", val |-> "Scripts"], [kind |-> "float64", val |-> ""]}

PortValues ==
    {Absent,
     [kind |-> "nil", val |-> 0, huge |-> FALSE],
     [kind |-> "string", val |-> 8080, huge |-> FALSE],
     [kind |-> "int", val |-> 80, huge |-> FALSE],
     [kind |-> "int", val |-> 8080, huge |-> FALSE],
     [kind |-> "float64", val |-> 0, huge |-> TRUE]}
        \cup {Float64(t) : t \in {0 - 80800, 0, 10230, 10239, 10240, 10249,
                                  80800, 655350, 655355, 655360}}

Configs ==
    {[scripts_dir |-> d, web_remote_port |-> p] :
        d \in DirValues, p \in PortValues}

\* reaper.ini is missing, or holds one web remote entry on port 80
ConfigFiles ==
    {NoFile,
     [exists |-> TRUE,
      data |-> Content(<<HTTPEntry(<<"1">>, <<"8", "0">>)>>)]}

\* REAPER is not running, or answers with one track
ConfigResponses ==
    {NoEndpoint,
     [outcome |-> "answered", status |-> 200, body |-> Content(<<RowFlags>>)]}

ConfigInit ==
    /\ file \in ConfigFiles
    /\ orig = file
    /\ created = <<>>
    /\ nOps = 0
    /\ last = NoCall
    /\ settings = NewManager
    /\ endpoint \in ConfigResponses
    /\ client = NoClient
    /\ polls = <<>>
    /\ inflight = NoCallers

ValidateConfig(config) ==
    /\ \E port \in IntOf(config.web_remote_port) :
          last' = [op |-> "ValidateConfig", config |-> config, port |-> port,
                   err |-> ConfigError(config, port)]
    /\ UNCHANGED <<file, orig, created, nOps, settings, endpoint, client, polls,
                   inflight>>

\* the host initializes the plugin with the config it has just validated
InitializeWithConfig ==
    /\ last.op = "ValidateConfig"
    /\ last.err = ""
    /\ LET r == Unmarshal(MarshalConfig(last.config))
       IN  /\ settings' = IF r.err THEN settings ELSE r.settings
           /\ last' = [op |-> "InitializeWithConfig", config |-> last.config,
                       err |-> IF r.err THEN "unmarshal_failed" ELSE ""]
    /\ UNCHANGED <<file, orig, created, nOps, endpoint, client, polls,
                   inflight>>

\* Call with the operation get_tracks: the settings are loaded if there are
\* none, the port is that of Manager.GetWebRemotePort, a client is made for
\* it and asked for the tracks
CallGetTracks(env) ==
    /\ LET loaded == LoadedSettings(settings, env)
           port   == ManagerPort(loaded, file)
           c      == NewClient(port, file)
           r      == FetchTracks(c.client, endpoint)
       IN  /\ settings' = loaded
           /\ last' = IF c.err # ""
                      THEN [op |-> "get_tracks", port |-> port,
                            err |-> c.err, tracks |-> <<>>, gets |-> <<>>]
                      ELSE [op |-> "get_tracks", port |-> port,
                            err |-> r.err, tracks |-> r.tracks,
                            gets |-> r.gets]
    /\ UNCHANGED <<file, orig, created, nOps, endpoint, client, polls,
                   inflight>>

ConfigNext ==
    \/ \E config \in Configs : ValidateConfig(config)
    \/ InitializeWithConfig
    \/ \E env \in AgentDirs : CallGetTracks(env)

ConfigSpec == ConfigInit /\ [][ConfigNext]_vars

(***************************************************************************)
(* Vocabulary of the properties.                                           *)
(***************************************************************************)
\* the lines the last call read, and the lines it wrote
Read == IF last.before.exists THEN ScanLines(last.before.data) ELSE <<>>
Wrote == last.lines

\* the lines a reader finds in a file
Lines(f) == IF f.exists THEN ScanLines(f.data) ELSE <<>>

RemoveAt(s, i) == SubSeq(s, 1, i - 1) \o SubSeq(s, i + 1, Len(s))

Max(S) == CHOOSE x \in S : \A y \in S : y <= x

KeyOf(line) == SplitN2(TrimSpace(line))[1]
ValueOf(line) == SplitN2(TrimSpace(line))[2]
IsKeyValue(line) == Len(SplitN2(TrimSpace(line))) = 2

\* a csurf_<integer> line, and its id
IsCsurfLine(line) ==
    LET parts == SplitN2(TrimSpace(line))
    IN  /\ Len(parts) = 2
        /\ HasPrefix(parts[1], CsurfPrefix)
        /\ ~Atoi(TrimPrefix(parts[1], CsurfPrefix)).err
CsurfIdOf(line) == Atoi(TrimPrefix(KeyOf(line), CsurfPrefix)).val

\* a csurf_cnt line, and its value
IsCntLine(line) == HasPrefix(TrimSpace(line), CsurfCntPrefix)
CntValueOf(line) == Atoi(ValueOf(line))

CsurfLines(ls) == SelectSeq(ls, IsCsurfLine)
CntLines(ls) == SelectSeq(ls, IsCntLine)
CsurfIds(ls) ==
    LET cs == CsurfLines(ls) IN [k \in 1..Len(cs) |-> CsurfIdOf(cs[k])]
IdSet(ls) ==
    LET ids == CsurfIds(ls) IN {ids[k] : k \in 1..Len(ids)}

\* the number of the last csurf_<integer> line, 0 when there is none
LastCsurf(ls) ==
    LET at == {k \in 1..Len(ls) : IsCsurfLine(ls[k])}
    IN  IF at = {} THEN 0 ELSE Max(at)

\* a line with a csurf_ key whose value starts with HTTP or WEBR
IsWebRemoteLine(line) ==
    LET parts == SplitN2(TrimSpace(line))
    IN  /\ Len(parts) = 2
        /\ HasPrefix(parts[1], CsurfPrefix)
        /\ \/ HasPrefix(parts[2], HTTPPrefix)
           \/ HasPrefix(parts[2], WEBRPrefix)

\* the port token of a web remote line: the third token under HTTP, the
\* last one under WEBR
PortTokenOf(line) ==
    LET value  == ValueOf(line)
        fields == Fields(value)
    IN  IF HasPrefix(value, HTTPPrefix) THEN fields[3]
        ELSE fields[Len(fields)]

\* a web remote entry: an integer id, at least three tokens, a numeric port
IsWebRemoteEntry(line) ==
    /\ IsWebRemoteLine(line)
    /\ IsCsurfLine(line)
    /\ Len(Fields(ValueOf(line))) >= 3
    /\ ~Atoi(PortTokenOf(line)).err

PortDone == last.op = "SetWebRemotePort" /\ last.err = ""
EnabledDone == last.op = "SetWebRemoteEnabled" /\ last.err = ""

C3_NewIdIsMaxPlusOne ==
    PortDone =>
        LET rd    == Read
            ls    == Lines(file)
            ids   == IdSet(rd)
            newId == IF ids = {} THEN 0 ELSE Max(ids) + 1
            cnts  == CntLines(ls)
        IN  /\ last.newCSurfID = newId
            /\ \A id \in ids : newId > id
            /\ CsurfIds(ls) = Append(CsurfIds(rd), newId)
            /\ cnts # <<>>
            /\ \A k \in 1..Len(cnts) : cnts[k] = CsurfCntPrefix \o Itoa(newId)

\* ids 0 and 5 were present, 5 on an entry that is no web remote: the new
\* entry is csurf_6 and the directive is csurf_cnt=6
C3_Witness ==
    /\ PortDone
    /\ IdSet(Read) = {0, 5}
    /\ last.newCSurfID = 6
    /\ \E k \in 1..Len(Wrote) :
          Wrote[k] = <<"c", "s", "u", "r", "f", "_", "c", "n", "t", "=", "6">>
    /\ \E k \in 1..Len(Wrote) :
          /\ IsCsurfLine(Wrote[k])
          /\ CsurfIdOf(Wrote[k]) = 6

C5_NoDeduplication ==
    file.exists =>
        LET was    == Lines(orig)
            wasIds == IdSet(was)
            m      == IF wasIds = {} THEN -1 ELSE Max(wasIds)
            k      == Len(created)
            now    == CsurfLines(Lines(file))
            old    == Len(CsurfLines(was))
        IN  /\ Len(now) = old + k
            /\ [i \in 1..Len(now) |-> CsurfIdOf(now[i])]
                  = CsurfIds(was) \o [i \in 1..k |-> m + i]
            /\ \A i \in 1..k :
                  /\ created[i].id = m + i
                  /\ created[i].id \notin wasIds
                  /\ IsWebRemoteEntry(now[old + i])
                  /\ Atoi(PortTokenOf(now[old + i])).val = created[i].port

\* two creations with the same port on a file that had entries
C5_Witness ==
    /\ Len(created) = 2
    /\ created[1].port = created[2].port
    /\ created[1].id # created[2].id
    /\ IdSet(Lines(orig)) # {}
    /\ Len(CsurfLines(Lines(file))) = Len(CsurfLines(Lines(orig))) + 2

(***************************************************************************)
(* C6.  First-match resolution.                                            *)
(***************************************************************************)
\* C6: GetWebRemoteConfig returns the first web remote entry (HTTP or WEBR,
\* integer id, at least three tokens, numeric port) in file order,
\* whatever its id, kind and enabled flag, and fails exactly when the file
\* has none; no later entry is returned while an earlier one exists.
C6_FirstMatch ==
    (last.op = "GetWebRemoteConfig" /\ file.exists) =>
        LET ls    == Lines(file)
            found == {k \in 1..Len(ls) : IsWebRemoteEntry(ls[k])}
            line  == ls[last.target]
        IN  IF found = {}
            THEN last.err = "csurf_not_found"
            ELSE /\ last.err = ""
                 /\ \A k \in found : last.target <= k
                 /\ last.target \in found
                 /\ last.cfg.CSurfID = CsurfIdOf(line)
                 /\ last.cfg.Port = Atoi(PortTokenOf(line)).val
                 /\ last.cfg.RawConfig = ValueOf(line)

\* the file [WEBR disabled port 9000, HTTP enabled port 8080], in this
\* order and with the higher id first: port 9000, disabled, is returned
C6_Witness ==
    /\ last.op = "GetWebRemoteConfig"
    /\ Lines(file) = <<LineWEBR3, LineHTTP2>>
    /\ last.err = ""
    /\ last.cfg.Port = 9000
    /\ ~last.cfg.Enabled
    /\ last.cfg.CSurfID = 3

(***************************************************************************)
(* C7.  Enable toggling in place.                                          *)
(***************************************************************************)
\* C7: a successful SetWebRemoteEnabled(e) rewrites one line, of which it
\* keeps the key and every token but the enabled flag, in order and number;
\* GetWebRemoteConfig succeeded before the call, and after it reports
\* enabled = e with the same port, csurf id and number of fields as before.
C7_ToggleInPlace ==
    EnabledDone =>
        LET rd  == Read
            wr  == Wrote
            was == rd[last.target]
            is  == wr[last.target]
            g0  == ResolveConfig(last.before)
            g1  == ResolveConfig(file)
        IN  /\ Len(wr) = Len(rd)
            /\ \A k \in 1..Len(rd) : k # last.target => wr[k] = rd[k]
            /\ KeyOf(is) = KeyOf(was)
            /\ Fields(ValueOf(is))
                  = [Fields(ValueOf(was)) EXCEPT ![2] = EnabledVal(last.enabled)]
            /\ g0.err = ""
            /\ g1.err = ""
            /\ g1.cfg.Enabled = last.enabled
            /\ g1.cfg.Port = g0.cfg.Port
            /\ g1.cfg.CSurfID = g0.cfg.CSurfID
            /\ Len(Fields(g1.cfg.RawConfig)) = Len(Fields(g0.cfg.RawConfig))

(***************************************************************************)
(* C8.  SetWebRemoteEnabled searches as GetWebRemoteConfig does.           *)
(***************************************************************************)
\* C8: SetWebRemoteEnabled succeeds exactly when GetWebRemoteConfig succeeds
\* on the same file, and the line it rewrites is the line of the entry
\* GetWebRemoteConfig returns.
C8_SameSearch ==
    (last.op = "SetWebRemoteEnabled") =>
        LET g0 == ResolveConfig(last.before)
        IN  /\ (last.err = "") <=> (g0.err = "")
            /\ last.err = "" => last.target = g0.line

C10_SetThenGet ==
    PortDone =>
        LET g1 == ResolveConfig(file)
        IN  /\ g1.err = ""
            /\ g1.cfg.Port = last.port

(***************************************************************************)
(* C11.  Port range.                                                       *)
(***************************************************************************)
\* C11: whenever GetWebRemotePort or GetWebRemoteConfig returns without
\* error, the port it returns is in 1..65535, whatever the file holds.
C11_PortInRange ==
    /\ (last.op = "GetWebRemoteConfig" /\ last.err = "") =>
          last.cfg.Port \in 1..65535
    /\ (last.op = "GetWebRemotePort" /\ last.err = "") =>
          last.port \in 1..65535

(***************************************************************************)
(* C12.  Enabled truthiness.                                               *)
(***************************************************************************)
\* C12: GetWebRemoteConfig reports enabled = true exactly when the token
\* right after HTTP or WEBR of the entry it returns is "1"; every other
\* token, "true" included, gives enabled = false, under both schemas.
C12_EnabledIffOne ==
    (last.op = "GetWebRemoteConfig" /\ last.err = "") =>
        LET line == Lines(file)[last.target]
            flag == Fields(ValueOf(line))[2]
        IN  last.cfg.Enabled <=> (flag = <<"1">>)

(***************************************************************************)
(* C13.  Order preservation.                                               *)
(***************************************************************************)
\* whether a[i..] occurs in b[j..] as a subsequence, in order
RECURSIVE IsSubSeqFrom(_, _, _, _)
IsSubSeqFrom(a, i, b, j) ==
    IF i > Len(a) THEN TRUE
    ELSE IF j > Len(b) THEN FALSE
    ELSE IF a[i] = b[j] THEN IsSubSeqFrom(a, i + 1, b, j + 1)
    ELSE IsSubSeqFrom(a, i, b, j + 1)

\* the lines of ls that no call replaces: all but the csurf_cnt line and
\* the line SetWebRemoteEnabled targets
NotReplaced(ls) ==
    LET target  == EnabledLines(ls, TRUE).target
        Keep(l) == ~IsCntLine(l) /\ (target = 0 \/ l # ls[target])
    IN  SelectSeq(ls, Keep)

\* C13: after any sequence of SetWebRemotePort and SetWebRemoteEnabled
\* calls, the lines of the original file other than the targeted entry line
\* and the csurf_cnt line are all in the file, unmodified and in their
\* original relative order, and no call leaves the file with fewer lines
\* than it had.
C13_OrderPreserved ==
    file.exists =>
        LET was == Lines(orig)
            now == Lines(file)
        IN  /\ IsSubSeqFrom(NotReplaced(was), 1, now, 1)
            /\ Len(now) >= Len(was)
            /\ last.wrote => Len(now) >= Len(Lines(last.before))

(***************************************************************************)
(* C14.  Round trip of load and save.                                      *)
(***************************************************************************)
\* C14: when the lines written are the lines read, unchanged (the scanner
\* load followed by the newline join, as SetWebRemoteEnabled does it on an
\* entry that already has the flag asked for), the file holds the same
\* lines in the same order afterwards, nothing added and nothing dropped.
C14_RoundTrip ==
    (EnabledDone /\ Wrote = Read) => Lines(file) = Lines(last.before)

(***************************************************************************)
(* C15.  All-or-nothing rewrite.                                           *)
(***************************************************************************)
\* C15: whatever fails or stops during a mutating call, reaper.ini is
\* afterwards either exactly as it was or holds the complete new content;
\* an error before the write leaves it as it was.
C15_AllOrNothing ==
    (last.op \in {"SetWebRemotePort", "SetWebRemoteEnabled"}) =>
        /\ \/ file = last.before
           \/ last.wrote /\ file = WriteFile(last.lines)
        /\ ~last.wrote => file = last.before

(***************************************************************************)
(* C16.  Client port resolution.                                           *)
(***************************************************************************)
\* the port in the base URL of a client
ClientPortOf(wrc) == Atoi(TrimPrefix(wrc.baseURL, LocalhostURL))

\* C16: NewWebRemoteClient(port) with a port other than 0 returns a client
\* for exactly that port whatever reaper.ini holds, even when it is missing;
\* with port 0 it returns a client for the port GetWebRemotePort returns,
\* and when GetWebRemotePort fails it returns an error and no client.
C16_ClientPort ==
    (last.op = "NewWebRemoteClient") =>
        LET g    == ResolveConfig(file)
            port == IF last.port # 0 THEN last.port ELSE g.cfg.Port
        IN  IF last.port = 0 /\ g.err # ""
            THEN last.err # "" /\ last.client.isNil
            ELSE /\ last.err = ""
                 /\ ~last.client.isNil
                 /\ HasPrefix(last.client.baseURL, LocalhostURL)
                 /\ ~ClientPortOf(last.client).err
                 /\ ClientPortOf(last.client).val = port

\* NewWebRemoteClient(0) on a reaper.ini that exists and has no web remote
\* entry: an error and no client
C16_Witness ==
    /\ last.op = "NewWebRemoteClient"
    /\ last.port = 0
    /\ file.exists
    /\ ResolveConfig(file).err = "csurf_not_found"
    /\ last.err # ""
    /\ last.client.isNil

(***************************************************************************)
(* C17.  Port priority of the settings layer.                              *)
(***************************************************************************)
\* the port the user configured, 0 when none: that of the loaded settings,
\* and with no settings loaded that of the settings file of the agent
ConfiguredPort(was, env) ==
    IF was.loaded THEN was.WebRemotePort
    ELSE IF env.hasAgent /\ env.hasFile /\ ~Unmarshal(env.doc).err
    THEN Unmarshal(env.doc).settings.WebRemotePort
    ELSE 0

\* C17: Manager.GetWebRemotePort returns the port configured in the plugin
\* settings when one was configured; with none configured it returns the
\* port detected from reaper.ini, and 2307 when the detection fails.
\* (Settings loaded earlier count as configured here, the defaults too;
\* with no settings loaded only the file of the agent can configure a port.)
C17_SettingsPriority ==
    (last.op = "Manager.GetWebRemotePort") =>
        LET configured == ConfiguredPort(last.was, last.env)
            g          == ResolveConfig(file)
        IN  last.port = IF configured # 0 THEN configured
                        ELSE IF g.err = "" THEN g.cfg.Port
                        ELSE 2307

(***************************************************************************)
(* Vocabulary of the track properties.                                     *)
(***************************************************************************)
\* GetTracks got a body and parsed it
Parsed ==
    /\ last.op = "GetTracks"
    /\ last.resp.outcome = "answered"
    /\ last.resp.status = 200

\* the lines of a response body
BodyLines(body) == Split(body, LF)

\* a line of at least 13 tab-separated fields of which the first is TRACK
IsTrackRow(line) ==
    LET fields == Split(line, TAB)
    IN  Len(fields) >= 13 /\ fields[1] = TagTRACK

\* a line that passes the field count and tag checks of parseTrackData,
\* which it makes on the line without its leading and trailing white space
PassesChecks(line) == IsTrackRow(TrimSpace(line))

\* the fields parseTrackData decodes of a line
FieldsOf(line) == Split(TrimSpace(line), TAB)

\* a float of the model in thousandths, rounded towards minus infinity
Milli(f) ==
    IF f.exp >= -3 THEN f.mant * Pow10(f.exp + 3)
    ELSE f.mant \div Pow10(0 - 3 - f.exp)

\* f is a number within 0.05 of milli thousandths
Near(f, milli) ==
    /\ f.cls = "num"
    /\ Milli(f) - milli \in -50..50

(***************************************************************************)
(* C18.  Tolerant row parsing.                                             *)
(***************************************************************************)
\* C18: parseTrackData returns no error, and its result holds exactly one
\* Track for every line of the body that has at least 13 tab-separated
\* fields of which the first is TRACK, in the order of the lines; every
\* other line is dropped, and fields beyond the thirteenth do no harm.
C18_TolerantRows ==
    Parsed =>
        LET rows == SelectSeq(BodyLines(last.resp.body), IsTrackRow)
        IN  /\ last.err = ""
            /\ Len(last.tracks) = Len(rows)
            /\ \A k \in 1..Len(rows) :
                  k <= Len(last.tracks) =>
                      last.tracks[k].Name = Split(rows[k], TAB)[3]

C20_VolumeFinite ==
    Parsed =>
        LET rows == SelectSeq(BodyLines(last.resp.body), PassesChecks)
        IN  \A k \in 1..Len(last.tracks) :
                LET vol == FieldsOf(rows[k])[5]
                    v   == last.tracks[k].Volume
                IN  /\ v.cls = "num"
                    /\ vol \in {<<"0">>, <<"-", "1">>} => v = Num(-150, 0)
                    /\ vol = One6 => v = ZeroFloat
                    /\ vol = <<"0", ".", "5">> => Near(v, -6021)
                    /\ vol = <<"2", ".", "0">> => Near(v, 6021)
(***************************************************************************)
(* C21.  Endpoint failure mapping.                                         *)
(***************************************************************************)
\* C21: GetTracks returns the connection error, which names the URL it
\* requested, when the request cannot be made or times out, and the status
\* error, which carries the status code, when the endpoint answers with a
\* status outside 200..299; the two errors differ; in both cases no tracks
\* are returned, and tracks are returned without error only for a status in
\* 200..299.
C21_FailureMapping ==
    (last.op = "GetTracks") =>
        LET resp     == last.resp
            noAnswer == resp.outcome \in {"connect_failed", "timeout"}
        IN  /\ noAnswer =>
                  /\ last.err = "connect_failed"
                  /\ last.errURL = last.baseURL \o TrackPath
                  /\ last.tracks = <<>>
            /\ (~noAnswer /\ resp.status \notin 200..299) =>
                  /\ last.err = "bad_status"
                  /\ last.errStatus = resp.status
                  /\ last.tracks = <<>>
            /\ last.err = "bad_status" => ~noAnswer
            /\ last.err = "" => (~noAnswer /\ resp.status \in 200..299)

\* the endpoint answered 500 with a body that holds a track row: the error
\* carries 500 and there are no tracks
C21_Witness ==
    /\ last.op = "GetTracks"
    /\ last.resp.outcome = "answered"
    /\ last.resp.status = 500
    /\ parseTrackData(last.resp.body).tracks # <<>>
    /\ last.err = "bad_status"
    /\ last.errStatus = 500
    /\ last.tracks = <<>>
(***************************************************************************)
(* C22.  Resolve failure.                                                  *)
(***************************************************************************)
\* C22: GetWebRemoteConfig returns an error exactly when reaper.ini cannot
\* be located or opened, when reading it fails before an entry is found, or
\* when it holds no web remote entry (HTTP or WEBR, integer id, at least
\* three tokens, numeric port); with an error there is no config, and a
\* config is always that of an HTTP or WEBR line, never that of a control
\* surface of another kind.
C22_ResolveFailure ==
    (last.op = "GetWebRemoteConfig") =>
        LET f        == last.before
            ls       == Lines(f)
            seen     == IF last.rd = "scan_error" /\ last.scanned < Len(ls)
                        THEN SubSeq(ls, 1, last.scanned) ELSE ls
            unloaded == \/ ~f.exists
                        \/ last.rd \in {"path_error", "open_error"}
            cutShort == /\ last.rd = "scan_error"
                        /\ \A k \in 1..Len(seen) : ~IsWebRemoteEntry(seen[k])
            none     == \A k \in 1..Len(ls) : ~IsWebRemoteEntry(ls[k])
        IN  /\ (last.err # "") <=> (unloaded \/ cutShort \/ none)
            /\ last.err # "" => (last.cfg = NoConfig /\ last.target = 0)
            /\ last.err = "" =>
                  /\ last.target \in 1..Len(ls)
                  /\ IsWebRemoteLine(ls[last.target])
                  /\ last.cfg.RawConfig = ValueOf(ls[last.target])

\* reaper.ini was read to its end and holds csurf entries, all of a kind
\* other than HTTP and WEBR or malformed: not found, and no config
C22_Witness ==
    /\ last.op = "GetWebRemoteConfig"
    /\ last.rd = "ok"
    /\ last.before.exists
    /\ \E k \in 1..Len(Read) :
          IsCsurfLine(Read[k]) /\ ~IsWebRemoteLine(Read[k])
    /\ last.err = "csurf_not_found"
    /\ last.cfg = NoConfig
(***************************************************************************)
(* C23.  ValidateConfig.                                                   *)
(***************************************************************************)
\* whether the value of web_remote_port is a number, and whether its
\* integer part is a port from 1024 to 65535
IsNumber(v) == v.kind \in {"float64", "int"}
InUserPorts(v) ==
    /\ ~v.huge
    /\ (IF v.kind = "int" THEN v.val ELSE Truncate(v.val)) \in 1024..65535

C24_SchemaDecoding ==
    (last.op = "GetWebRemoteConfig" /\ last.err = "") =>
        LET line   == Lines(file)[last.target]
            tokens == Fields(ValueOf(line))
            kind   == tokens[1]
            flag   == tokens[2]
        IN  /\ kind \in {<<"H", "T", "T", "P">>, <<"W", "E", "B", "R">>}
            /\ kind = <<"H", "T", "T", "P">> =>
                  last.cfg.Port = Atoi(tokens[3]).val
            /\ kind = <<"W", "E", "B", "R">> =>
                  last.cfg.Port = Atoi(tokens[Len(tokens)]).val
            /\ flag = <<"1">> => last.cfg.Enabled
            /\ flag \in {<<"0">>, <<"2">>} => ~last.cfg.Enabled
            /\ KeyOf(line) = CsurfPrefix \o Itoa(last.cfg.CSurfID)

\* the entry csurf_3=WEBR 0 0 - 9000, after an OSC entry with id 5: the
\* port is the last token, not the third, and the id is 3
C24_Witness ==
    /\ last.op = "GetWebRemoteConfig"
    /\ Lines(file) = <<LineOSC5, LineWEBR3>>
    /\ last.err = ""
    /\ last.cfg.Port = 9000
    /\ ~last.cfg.Enabled
    /\ last.cfg.CSurfID = 3
(***************************************************************************)
(* C25.  Insertion point.                                                  *)
(***************************************************************************)
\* the number of the line of ls that is the csurf_<integer> line with this
\* id, 0 when there is none
LineOfId(ls, id) ==
    LET at == {k \in 1..Len(ls) : IsCsurfLine(ls[k]) /\ CsurfIdOf(ls[k]) = id}
    IN  IF at = {} THEN 0 ELSE Max(at)

\* the entries created so far are on consecutive lines, in creation order
CreatedConsecutive ==
    LET ls == Lines(file)
    IN  \A i \in 1..(Len(created) - 1) :
            /\ LineOfId(ls, created[i].id) > 0
            /\ LineOfId(ls, created[i + 1].id) = LineOfId(ls, created[i].id) + 1

\* C25 as claimed: SetWebRemotePort puts the new entry on the line right
\* after the last csurf_<integer> line, where it is the last
\* csurf_<integer> line, and on the last line of the file when there is no
\* csurf_<integer> line; entries of consecutive calls are on consecutive
\* lines in creation order.
C25_EntryAtFileEnd ==
    PortDone =>
        LET rd     == Read
            wr     == Wrote
            lastAt == LastCsurf(rd)
            new    == NewCSurfLine(last.newCSurfID, last.port)
        IN  /\ lastAt > 0 => (wr[lastAt + 1] = new /\ LastCsurf(wr) = lastAt + 1)
            /\ lastAt = 0 => wr[Len(wr)] = new
            /\ CreatedConsecutive

\* C25 as amended: SetWebRemotePort puts the new entry on the line right
\* after the last csurf_<integer> line, where it is the last
\* csurf_<integer> line and the lines before it are in their places; when
\* there is no csurf_<integer> line it puts the entry after every line the
\* file had, and the only line that can follow it is the csurf_cnt line the
\* call appends when the file had none; entries of consecutive calls are on
\* consecutive lines in creation order.
C25_InsertionPoint ==
    PortDone =>
        LET rd     == Read
            wr     == Wrote
            lastAt == LastCsurf(rd)
            new    == NewCSurfLine(last.newCSurfID, last.port)
            at     == IF lastAt > 0 THEN lastAt + 1 ELSE Len(rd) + 1
        IN  /\ wr[at] = new
            /\ LastCsurf(wr) = at
            /\ \A k \in 1..(at - 1) : wr[k] = rd[k] \/ IsCntLine(rd[k])
            /\ lastAt = 0 =>
                  \/ Len(wr) = at /\ CntLines(rd) # <<>>
                  \/ /\ Len(wr) = at + 1
                     /\ CntLines(rd) = <<>>
                     /\ wr[at + 1] = CsurfCntLine(last.newCSurfID)
            /\ CreatedConsecutive

\* two creations on a file that had lines but no csurf_<integer> line and
\* no csurf_cnt line: the two entries follow the lines of the file and the
\* directive is the last line
C25_Witness ==
    /\ PortDone
    /\ Len(created) = 2
    /\ Lines(orig) # <<>>
    /\ LastCsurf(Lines(orig)) = 0
    /\ CntLines(Lines(orig)) = <<>>
    /\ IsCntLine(Lines(file)[Len(Lines(file))])
    /\ LineOfId(Lines(file), 1) = LineOfId(Lines(file), 0) + 1
(***************************************************************************)
(* C26.  Positional flag decoding.                                         *)
(***************************************************************************)
\* the fields of a line that are decoded: index, name, volume multiplier,
\* pan, mute, solo and record arm
Decoded(line) ==
    LET f == FieldsOf(line)
    IN  <<f[2], f[3], f[5], f[6], f[11], f[12], f[13]>>

RaceFiles ==
    {NoFile} \cup
    {[exists |-> TRUE, data |-> Content(ls)] :
        ls \in {<<LineHTTP0>>, <<LineOSC5, LineCnt>>, <<LineHTTP2, LineOSC5>>,
                <<LineBadKey>>}}

\* the configuration REAPER holds and saves over the file
ReaperConfig == [exists |-> TRUE, data |-> Content(<<LineWEBR3, LineOSC5>>)]

RaceInit ==
    /\ file \in RaceFiles
    /\ orig = file
    /\ created = <<>>
    /\ nOps = 0
    /\ last = NoCall
    /\ settings = NewManager
    /\ endpoint = NoEndpoint
    /\ client = NoClient
    /\ polls = <<>>
    /\ inflight = NoCallers

\* SnapshotOf with a slip: the call computes from the file as it is when it
\* writes
SnapshotOfCurrent(c) == file

\* the file as the call of c read it
SnapshotOf(c) == inflight[c].before

\* what a call computes from the file it read: whether it writes, the lines
\* it writes, the id it created and its error
Computed(op, port, enabled, before) ==
    IF op = "SetWebRemotePort"
    THEN LET r == PortLines(ScanLines(before.data), port)
         IN  [write |-> TRUE, lines |-> r.lines, newCSurfID |-> r.newCSurfID,
              err |-> ""]
    ELSE LET r == EnabledLines(ScanLines(before.data), enabled)
         IN  IF r.modified
             THEN [write |-> TRUE, lines |-> r.lines, newCSurfID |-> -1,
                   err |-> ""]
             ELSE [write |-> FALSE, lines |-> <<>>, newCSurfID |-> -1,
                   err |-> "csurf_not_found"]

\* the first half of a call: the path is looked up and the file is read to
\* its end
ReadStep(c, op, port, enabled) ==
    /\ inflight[c].stage = "idle"
    /\ IF GetReaperIniPath(file) # ""
       THEN /\ inflight' = [inflight EXCEPT
                              ![c] = [Idle EXCEPT
                                        !.stage = "done", !.op = op,
                                        !.port = port, !.enabled = enabled,
                                        !.before = file,
                                        !.err = GetReaperIniPath(file)]]
            /\ last' = [NoCall EXCEPT
                          !.op = op, !.port = port, !.enabled = enabled,
                          !.err = GetReaperIniPath(file), !.before = file]
                       @@ [caller |-> c, overwrote |-> file]
       ELSE /\ inflight' = [inflight EXCEPT
                              ![c] = [Idle EXCEPT
                                        !.stage = "read", !.op = op,
                                        !.port = port, !.enabled = enabled,
                                        !.before = file]]
            /\ UNCHANGED last
    /\ UNCHANGED <<file, orig, created, nOps, settings, endpoint, client,
                   polls>>

ReadForSetWebRemotePort(c, newPort) ==
    ReadStep(c, "SetWebRemotePort", newPort, FALSE)

ReadForSetWebRemoteEnabled(c, enabled) ==
    ReadStep(c, "SetWebRemoteEnabled", 0, enabled)

\* the second half of a call: the lines computed from what was read are
\* written over the file, or the call returns its error
WriteStep(c) ==
    /\ inflight[c].stage = "read"
    /\ \E r \in {Computed(inflight[c].op, inflight[c].port,
                          inflight[c].enabled, SnapshotOf(c))} :
          /\ file' = IF r.write THEN WriteFile(r.lines) ELSE file
          /\ created' = IF inflight[c].op = "SetWebRemotePort"
                        THEN Append(created, [id   |-> r.newCSurfID,
                                              port |-> inflight[c].port])
                        ELSE created
          /\ inflight' = [inflight EXCEPT
                            ![c].stage = "done", ![c].err = r.err,
                            ![c].newCSurfID = r.newCSurfID]
          /\ last' = [NoCall EXCEPT
                        !.op = inflight[c].op, !.port = inflight[c].port,
                        !.enabled = inflight[c].enabled, !.err = r.err,
                        !.before = inflight[c].before, !.wrote = r.write,
                        !.lines = r.lines, !.newCSurfID = r.newCSurfID]
                     @@ [caller |-> c, overwrote |-> file]
    /\ nOps' = nOps + 1
    /\ UNCHANGED <<orig, settings, endpoint, client, polls>>

\* REAPER saves its configuration
ReaperSaves ==
    /\ file # ReaperConfig
    /\ file' = ReaperConfig
    /\ last' = [NoCall EXCEPT !.op = "REAPER", !.before = ReaperConfig,
                              !.wrote = TRUE,
                              !.lines = ScanLines(ReaperConfig.data)]
               @@ [caller |-> "REAPER", overwrote |-> file]
    /\ UNCHANGED <<orig, created, nOps, settings, endpoint, client, polls,
                   inflight>>

RaceNext ==
    \/ \E c \in Callers, newPort \in Ports : ReadForSetWebRemotePort(c, newPort)
    \/ \E c \in Callers, enabled \in BOOLEAN :
          ReadForSetWebRemoteEnabled(c, enabled)
    \/ \E c \in Callers : WriteStep(c)
    \/ ReaperSaves

RaceSpec == RaceInit /\ [][RaceNext]_vars

(***************************************************************************)
(* C27.  Last writer wins.                                                 *)
(***************************************************************************)
\* the web remote entries among the lines of a file
EntriesOf(f) == SelectSeq(Lines(f), IsWebRemoteEntry)

\* a call of the registry has just written the file
RegistryWrote ==
    /\ last.op \in {"SetWebRemotePort", "SetWebRemoteEnabled"}
    /\ last.wrote

\* the file was written by another writer between the read and the write of
\* the last call
WrittenBetween == RegistryWrote /\ last.overwrote # last.before

\* both callers ran SetWebRemotePort, each read the file before the other
\* wrote, and the later of the two writes has just happened
BothCreated ==
    /\ RegistryWrote
    /\ \A c \in Callers :
          /\ inflight[c].stage = "done"
          /\ inflight[c].op = "SetWebRemotePort"
          /\ inflight[c].before = orig

\* C27: when a registry call writes, the file becomes what the call computed
\* from the file as it read it, whatever was written to the file since: the
\* file another writer left in between is replaced as a whole and has no
\* part in the result.  When two
\* SetWebRemotePort calls both read before either writes, both compute the
\* same new id from the same maximum, and the file ends with one entry more
\* than it had, the entry of the later writer.
C27_LastWriterWins ==
    /\ RegistryWrote =>
          file = WriteFile(Computed(last.op, last.port, last.enabled,
                                    last.before).lines)
    /\ BothCreated =>
          /\ inflight["a"].newCSurfID = inflight["b"].newCSurfID
          /\ Len(EntriesOf(file)) = Len(EntriesOf(orig)) + 1
          /\ \E i \in 1..Len(Lines(file)) :
                Lines(file)[i] = NewCSurfLine(last.newCSurfID, last.port)

\* two SetWebRemotePort calls with different ports read the same file; after
\* both have written, both hold the same new id, the file has one new entry
\* and the line the first writer added is gone
C27_Witness ==
    /\ BothCreated
    /\ WrittenBetween
    /\ inflight["a"].port # inflight["b"].port
    /\ inflight["a"].newCSurfID = inflight["b"].newCSurfID
    /\ Len(created) = 2
    /\ Len(EntriesOf(file)) = Len(EntriesOf(orig)) + 1
    /\ \E c \in Callers :
          /\ inflight[c].port # last.port
          /\ \A i \in 1..Len(Lines(file)) :
                Lines(file)[i] #
                    NewCSurfLine(inflight[c].newCSurfID, inflight[c].port)
          /\ \E i \in 1..Len(Lines(last.overwrote)) :
                Lines(last.overwrote)[i] =
                    NewCSurfLine(inflight[c].newCSurfID, inflight[c].port)
(***************************************************************************)
(* Polling: clients are made for a given port or for the port found in     *)
(* reaper.ini, REAPER starts, stops and changes its configuration, and     *)
(* GetTracks is called again and again.                                    *)
(***************************************************************************)
PollPorts == {0, 8080}

PollFiles ==
    {NoFile, [exists |-> TRUE, data |-> Content(<<LineHTTP0>>)]}

\* the ports a client of the exploration can hold: the one given, the one
\* of LineHTTP0 and the one of ReaperConfig
PolledPorts == {8080, 2307, 9000}

PollResponses ==
    {NoEndpoint,
     [outcome |-> "timeout", status |-> 0, body |-> <<>>],
     [outcome |-> "answered", status |-> 500, body |-> Content(<<RowFlags>>)],
     [outcome |-> "answered", status |-> 200, body |-> Content(<<RowFlags>>)],
     [outcome |-> "answered", status |-> 200,
      body |-> Content(<<RowWidePan, Row12>>)]}

PollInit ==
    /\ file \in PollFiles
    /\ orig = file
    /\ created = <<>>
    /\ nOps = 0
    /\ last = NoCall
    /\ settings = NewManager
    /\ endpoint \in PollResponses
    /\ client = NoClient
    /\ polls = <<>>
    /\ inflight = NoCallers

\* REAPER starts, stops or answers with other tracks
EndpointChanges ==
    /\ endpoint' \in PollResponses \ {endpoint}
    /\ UNCHANGED <<file, orig, created, nOps, last, settings, client, polls,
                   inflight>>

PollNext ==
    \/ \E port \in PollPorts : NewWebRemoteClient(port)
    \/ GetTracks
    \/ EndpointChanges
    \/ ReaperSaves

PollSpec == PollInit /\ [][PollNext]_vars

(***************************************************************************)
(* C28.  Stateless polling without retries.                                *)
(***************************************************************************)
\* C28: every GetTracks call issues one GET, to
\* http://localhost:{port}/_/TRACK for the port of its client, and returns
\* the tracks decoded from the body it got, or an error and no tracks; two
\* calls of clients of the same port that get the same response return the
\* same tracks and the same error and issue the same GET, whatever the
\* calls before them returned.
C28_StatelessPolling ==
    /\ \A i \in 1..Len(polls) :
          LET call == polls[i]
          IN  /\ call.baseURL \in {LocalhostURL \o Itoa(port) :
                                      port \in PolledPorts}
              /\ call.gets = <<call.baseURL \o TrackPath>>
              /\ call.err # "" => call.tracks = <<>>
              /\ call.err = "" =>
                    /\ call.resp.outcome = "answered"
                    /\ call.tracks = parseTrackData(call.resp.body).tracks
    /\ \A i, j \in 1..Len(polls) :
          (polls[i].baseURL = polls[j].baseURL /\ polls[i].resp = polls[j].resp)
              => polls[i] = polls[j]
    /\ (last.op = "GetTracks") => last.baseURL = client.baseURL

\* the client was made for the port of reaper.ini, REAPER has since saved a
\* configuration with another port, and two calls in a row found no
\* connection: each issued its one GET to the port of the client and both
\* returned the same error
C28_Witness ==
    /\ Len(polls) = 2
    /\ last = polls[2]
    /\ polls[1] = polls[2]
    /\ polls[2].err = "connect_failed"
    /\ polls[2].gets = <<LocalhostURL \o Itoa(2307) \o TrackPath>>
    /\ DetectPort(file).port = 9000
(***************************************************************************)
(* C29.  Creation does not change resolution.                              *)
(***************************************************************************)
\* what GetWebRemoteConfig returned on the file the last call read, and what
\* it returns on the file now
ResolvedBefore == ResolveConfig(last.before)
ResolvedAfter == ResolveConfig(file)

EnabledAgain ==
    /\ EnabledDone
    /\ nOps' = nOps + 1
    /\ last'.op = "SetWebRemoteEnabled"
    /\ last'.err = ""
    /\ last'.enabled = last.enabled

\* the lines the last call wrote differ from the lines it read in at most
\* the line it targeted
OneLineRewritten ==
    /\ Len(Wrote) = Len(Read)
    /\ \A i \in 1..Len(Read) : i # last.target => Wrote[i] = Read[i]

\* C30: a SetWebRemoteEnabled(e) that follows a SetWebRemoteEnabled(e)
\* leaves the file as the first one left it, and every call writes back the
\* lines it read with at most the targeted line changed, so every other
\* HTTP/WEBR entry keeps its enabled flag.
C30_IdempotentSingleTarget ==
    /\ [](EnabledDone => OneLineRewritten)
    /\ [][EnabledAgain => file' = file]_vars

\* the same two statements on files whose last line is not empty
C30_UnlessLastLineEmpty ==
    /\ [](EnabledDone => OneLineRewritten)
    /\ [][(EnabledAgain /\ Lines(last.before)[Len(Lines(last.before))] # <<>>)
             => file' = file]_vars

====
